---- MODULE Spec2Model ----
(***************************************************************************)
(* Model of the weather proxy (weather_proxy): the /weather request        *)
(* pipeline, the two upstream clients with their retry decorator and       *)
(* circuit breakers, and the cache store.                                  *)
(*                                                                         *)
(* The breakers are pybreaker.CircuitBreaker objects built with fail_max   *)
(* and reset_timeout only (no listeners, no excluded exceptions, default   *)
(* throw_new_error_on_trip); the retrier is tenacity.retry with            *)
(* stop_after_attempt, wait_exponential, retry_if_exception_type and       *)
(* reraise=True.  Their behaviour is modelled as those library calls       *)
(* behave for exactly these arguments.                                     *)
(***************************************************************************)
EXTENDS Integers, Sequences, FiniteSets, TLC

VARIABLES now, breaker, lock, consec, req, nreq, cache, rt, g, uuids, sent, health, cs, lazy, wx, sd

vars == <<now, breaker, lock, consec, req, nreq, cache, rt, g, uuids, sent, health, cs, lazy, wx, sd>>

(***************************************************************************)
(* Bounds of the model and configuration values.                           *)
(***************************************************************************)
\* number of clock ticks explored
MaxTime == 2
\* number of requests explored
MaxRequests == 4
\* Config.circuit_breaker_fail_max (env CIRCUIT_BREAKER_FAIL_MAX), scaled
FailMax == 2
\* Config.circuit_breaker_reset_timeout (env CIRCUIT_BREAKER_RESET_TIMEOUT), scaled
ResetTimeout == 1
\* Config.retry_max_attempts (env RETRY_MAX_ATTEMPTS), scaled
RetryMaxAttempts == 2
\* Config.cache_ttl_seconds (env CACHE_TTL_SECONDS), scaled
CacheTtlSeconds == 1
\* number of get_request_id calls explored within one request
MaxCalls == 3
\* number of reset_circuit_breakers calls explored with the lazy creation
MaxResets == 1
\* number of requests explored in the fair runs
MaxLiveRequests == 3
\* number of shutdown callbacks registered, and of signals delivered
MaxCallbacks == 2
MaxSignals == 2
\* longest operation script of the retrier harness
MaxScript == 3
\* largest max_attempts handed to with_retry in the retrier harness
MaxAttemptsArg == 3

\* with_retry defaults
MinWait == 1
MaxWait == 10
\* the city length limit of GET /weather
MaxCityLen == 100

Threads == {1, 2}
Upstreams == {"geocoding", "weather"}
None == -1

Min(a, b) == IF a < b THEN a ELSE b
Max(a, b) == IF a > b THEN a ELSE b

RECURSIVE Pow2(_)
Pow2(n) == IF n <= 0 THEN 1 ELSE 2 * Pow2(n - 1)

(***************************************************************************)
(* Strings are sequences of one-character strings.                         *)
(***************************************************************************)
Whitespace == {" ", "\t"}

Rep(c, n) == [i \in 1..n |-> c]

RECURSIVE LStrip(_)
LStrip(s) == IF s # <<>> /\ Head(s) \in Whitespace THEN LStrip(Tail(s)) ELSE s

RECURSIVE RStrip(_)
RStrip(s) ==
    IF s # <<>> /\ s[Len(s)] \in Whitespace
    THEN RStrip(SubSeq(s, 1, Len(s) - 1))
    ELSE s

\* str.strip()
Strip(s) == RStrip(LStrip(s))

LowerChar(c) ==
    CASE c = "A" -> "a"
      [] c = "B" -> "b"
      [] OTHER -> c

\* str.lower()
Lower(s) == [i \in 1..Len(s) |-> LowerChar(s[i])]

(***************************************************************************)
(* Exceptions: a class name and the kind of message it carries.            *)
(***************************************************************************)
Exc(type, msg) == [type |-> type, msg |-> msg]
NoExc == Exc("None", "")

\* isinstance(e, cls) for the exception classes the program names
IsInstance(e, cls) ==
    \/ e.type = cls
    \/ cls = "Exception" /\ e.type # "None"
    \/ cls = "RequestError" /\ e.type \in {"TimeoutException", "ConnectError", "ReadError"}
    \/ cls = "GeocodingError" /\ e.type = "CityNotFoundError"

\* what one invocation of an upstream operation (_make_request) can do
Transient == {Exc("TimeoutException", ""), Exc("ConnectError", ""), Exc("HTTPStatusError", "")}
OtherFailures == {Exc("ReadError", ""), Exc("ValueError", "")}
Failures == Transient \cup OtherFailures

(***************************************************************************)
(* with_retry: tenacity.retry(stop_after_attempt, wait_exponential,        *)
(* retry_if_exception_type, reraise=True).                                 *)
(***************************************************************************)
\* variant: ConnectError left out of the retried classes
IsRetryable_NoConnect(e) ==
    \/ IsInstance(e, "TimeoutException")
    \/ IsInstance(e, "HTTPStatusError")

\* variant: every httpx.RequestError retried
IsRetryable_AnyRequestError(e) ==
    \/ IsInstance(e, "RequestError")
    \/ IsInstance(e, "HTTPStatusError")

\* retry=retry_if_exception_type((TimeoutException, ConnectError, HTTPStatusError))
IsRetryable(e) ==
    \/ IsInstance(e, "TimeoutException")
    \/ IsInstance(e, "ConnectError")
    \/ IsInstance(e, "HTTPStatusError")

\* stop=stop_after_attempt(max_attempts)
StopAfterAttempt(attempt, max_attempts) == attempt >= max_attempts

\* variant: min_wait as the multiplier of the exponential
WaitExponential_Scaled(attempt, min_wait, max_wait) ==
    Min(max_wait, min_wait * Pow2(attempt - 1))

\* wait=wait_exponential(multiplier=1, min=min_wait, max=max_wait), after
\* the attempt numbered `attempt` has failed
WaitExponential(attempt, min_wait, max_wait) ==
    Max(Max(0, min_wait), Min(1 * Pow2(attempt - 1), max_wait))

\* what the retrying wrapper does with the outcome e of attempt `attempt`:
\* "return" the result, "raise" e as it is, or "sleep" and call again
RetryDecision(e, attempt, max_attempts) ==
    IF e = NoExc THEN "return"
    ELSE IF ~IsRetryable(e) THEN "raise"
    ELSE IF StopAfterAttempt(attempt, max_attempts) THEN "raise"
    ELSE "sleep"

\* variant: reraise left at its default, the error comes wrapped
Reraise_Wrapped(e) == Exc("RetryError", "")

\* reraise=True: when the attempts are used up the wrapper raises the last
\* attempt's exception itself, not a tenacity.RetryError around it
Reraise(e) == e

(***************************************************************************)
(* Circuit breakers: one pybreaker.CircuitBreaker per upstream, created    *)
(* on first use and kept in a module global.                               *)
(***************************************************************************)
NoBreaker == [created |-> FALSE, state |-> "closed", fail_counter |-> 0, opened_at |-> None]

\* pybreaker.CircuitBreaker(fail_max=..., reset_timeout=..., name=...)
NewBreaker == [created |-> TRUE, state |-> "closed", fail_counter |-> 0, opened_at |-> None]

\* get_geocoding_breaker / get_weather_breaker
GetBreaker(b) == IF b.created THEN b ELSE NewBreaker

\* variant: no lock around the call
LockFree_NoLock(holder) == TRUE

\* breaker.call runs under the breaker's lock: holder 0 means it is free
LockFree(holder) == holder = 0

\* variant: the reset timeout left out of the comparison
OpenRejects_NoTimeout(b, t) ==
    b.state = "open" /\ b.opened_at # None /\ t < b.opened_at

\* an open breaker whose reset timeout has not elapsed rejects the call
OpenRejects(b, t) ==
    b.state = "open" /\ b.opened_at # None /\ t < b.opened_at + ResetTimeout

\* variant: an open breaker whose timeout has elapsed closes at once
LetThrough_Closes(b) == IF b.state = "open" THEN [b EXCEPT !.state = "closed"] ELSE b

\* the breaker as the call is let through: an open breaker whose timeout
\* has elapsed moves to half_open first
LetThrough(b) == IF b.state = "open" THEN [b EXCEPT !.state = "half_open"] ELSE b

\* variant: the counter is reset only when a probe closes the breaker
HandleSuccess_NoReset(b) ==
    IF b.state = "half_open"
    THEN [b EXCEPT !.fail_counter = 0, !.state = "closed"]
    ELSE b

\* variant: a successful probe leaves the breaker half open
HandleSuccess_NoClose(b) == [b EXCEPT !.fail_counter = 0]

\* the breaker after the wrapped operation succeeded
HandleSuccess(b) ==
    IF b.state = "half_open"
    THEN [b EXCEPT !.fail_counter = 0, !.state = "closed"]
    ELSE [b EXCEPT !.fail_counter = 0]

\* variant: the breaker opens one failure late
HandleError_Late(b, t) ==
    LET c == b.fail_counter + 1
    IN  IF b.state = "half_open" \/ c > FailMax
        THEN [b EXCEPT !.fail_counter = c, !.state = "open", !.opened_at = t]
        ELSE [b EXCEPT !.fail_counter = c]

\* the breaker after the wrapped operation raised, at time t
HandleError(b, t) ==
    LET c == b.fail_counter + 1
    IN  IF b.state = "half_open" \/ c >= FailMax
        THEN [b EXCEPT !.fail_counter = c, !.state = "open", !.opened_at = t]
        ELSE [b EXCEPT !.fail_counter = c]

\* what breaker.call raises when the wrapped operation raised e: the
\* breaker's own error when this failure opened it, else e
RaisedByBreaker(b, e) ==
    IF b.state = "half_open" \/ b.fail_counter + 1 >= FailMax
    THEN Exc("CircuitBreakerError", "")
    ELSE e

(***************************************************************************)
(* The upstream clients.                                                   *)
(***************************************************************************)
ServiceError(u) == IF u = "geocoding" THEN "GeocodingError" ELSE "WeatherServiceError"

\* variant: the upstream's errors leave the fetch untranslated
TranslateFetchError_Raw(u, e) ==
    IF IsInstance(e, "CircuitBreakerError") THEN Exc("CircuitBreakerOpen", "") ELSE e

\* the except clauses of _fetch_geocoding_data / _fetch_weather_data
TranslateFetchError(u, e) ==
    IF IsInstance(e, "CircuitBreakerError") THEN Exc("CircuitBreakerOpen", "")
    ELSE IF IsInstance(e, "TimeoutException") THEN Exc(ServiceError(u), "upstream failed")
    ELSE IF IsInstance(e, "HTTPStatusError") THEN Exc(ServiceError(u), "upstream failed")
    ELSE IF IsInstance(e, "RequestError") THEN Exc(ServiceError(u), "upstream failed")
    ELSE e

\* variant: the open breaker reported as a city that was not found
TranslateClientError_NotFound(u, e) ==
    IF IsInstance(e, "CircuitBreakerOpen")
    THEN Exc("CityNotFoundError", "temporarily unavailable")
    ELSE e

\* the except clause of city_to_coords / get_weather around the fetch
TranslateClientError(u, e) ==
    IF IsInstance(e, "CircuitBreakerOpen")
    THEN Exc(ServiceError(u), "temporarily unavailable")
    ELSE e

\* what a successful upstream answer can hold
GeoAnswers == {"ok", "empty", "absent", "malformed"}
WeatherAnswers == {"ok", "nocurrent", "malformed"}
Answers(u) == IF u = "geocoding" THEN GeoAnswers ELSE WeatherAnswers

\* variant: only the empty name rejected before the upstream call
EmptyName_Unstripped(city_name) == city_name = <<>>

\* `not city_name or not city_name.strip()`
EmptyName(city_name) == city_name = <<>> \/ Strip(city_name) = <<>>

\* the rest of city_to_coords / get_weather, on the fetched answer
ClientResult(u, answer) ==
    IF u = "geocoding"
    THEN CASE answer \in {"empty", "absent"} -> Exc("CityNotFoundError", "not found")
           [] answer = "malformed" -> Exc("KeyError", "")
           [] OTHER -> NoExc
    ELSE CASE answer = "nocurrent" -> Exc("WeatherServiceError", "invalid response")
           [] answer = "malformed" -> Exc("AttributeError", "")
           [] OTHER -> NoExc

(***************************************************************************)
(* GET /weather.                                                           *)
(***************************************************************************)
\* the query string: <<>> when there is no city parameter, else <<value>>
CityArgs ==
    { <<>>, << <<>> >>, << <<" ", "\t">> >>,
      << <<"A", "b">> >>, << <<" ", "a", "B", "\t">> >>,
      << Rep("a", MaxCityLen) >>, << Rep("a", MaxCityLen + 1) >>,
      << <<" ">> \o Rep("a", MaxCityLen) \o <<" ">> >> }

\* request.args.get("city", "").strip()
CityParam(arg) == Strip(IF arg = <<>> THEN <<>> ELSE arg[1])

\* variant: a city of exactly the limit rejected
ValidateCity_AtLimit(city) ==
    IF city = <<>> THEN "MISSING_PARAMETER"
    ELSE IF Len(city) >= MaxCityLen THEN "INVALID_PARAMETER"
    ELSE "OK"

\* the two validation checks of get_weather, on the stripped parameter
ValidateCity(city) ==
    IF city = <<>> THEN "MISSING_PARAMETER"
    ELSE IF Len(city) > MaxCityLen THEN "INVALID_PARAMETER"
    ELSE "OK"

\* variant: the GeocodingError clause placed before the CityNotFoundError clause
ErrorResponse_BaseFirst(e) ==
    IF IsInstance(e, "GeocodingError") THEN [status |-> 502, code |-> "GEOCODING_ERROR"]
    ELSE IF IsInstance(e, "CityNotFoundError") THEN [status |-> 404, code |-> "CITY_NOT_FOUND"]
    ELSE IF IsInstance(e, "WeatherServiceError")
    THEN [status |-> 502, code |-> "WEATHER_SERVICE_ERROR"]
    ELSE [status |-> 500, code |-> "INTERNAL_ERROR"]

\* variant: no catch-all clause
ErrorResponse_NoCatchAll(e) ==
    IF IsInstance(e, "CityNotFoundError") THEN [status |-> 404, code |-> "CITY_NOT_FOUND"]
    ELSE IF IsInstance(e, "GeocodingError") THEN [status |-> 502, code |-> "GEOCODING_ERROR"]
    ELSE IF IsInstance(e, "WeatherServiceError")
    THEN [status |-> 502, code |-> "WEATHER_SERVICE_ERROR"]
    ELSE [status |-> 0, code |-> "UNCAUGHT"]

\* the except clauses of get_weather
ErrorResponse(e) ==
    IF IsInstance(e, "CityNotFoundError") THEN [status |-> 404, code |-> "CITY_NOT_FOUND"]
    ELSE IF IsInstance(e, "GeocodingError") THEN [status |-> 502, code |-> "GEOCODING_ERROR"]
    ELSE IF IsInstance(e, "WeatherServiceError")
    THEN [status |-> 502, code |-> "WEATHER_SERVICE_ERROR"]
    ELSE [status |-> 500, code |-> "INTERNAL_ERROR"]

\* variant: the key namespaced as it comes
MakeKey_Raw(key) == <<"weather:">> \o key

\* CacheService._make_key
MakeKey(key) == <<"weather:">> \o Strip(Lower(key))

\* the store keys the requests of the model can touch
StoreKeys == { MakeKey(Lower(CityParam(a))) : a \in {x \in CityArgs : ValidateCity(CityParam(x)) = "OK"} }

NoEntry == [present |-> FALSE, city |-> <<>>, exp |-> 0]

\* redis GET: the value under k, unless the key is absent or has expired
StoreGet(k) == IF cache[k].present /\ now < cache[k].exp THEN cache[k] ELSE NoEntry

IdleReq ==
    [pc |-> "idle", arg |-> <<>>, city |-> <<>>, up |-> "none", attempt |-> 0, wake |-> 0,
     invoked |-> [u \in Upstreams |-> 0], recorded |-> [u \in Upstreams |-> 0],
     sleeps |-> 0, cacheOps |-> 0, cached_data |-> "None", name |-> <<>>, err |-> NoExc,
     status |-> 0, code |-> "", cached |-> FALSE, ttl |-> None, direct |-> FALSE]

\* the request ends with an error response for exception e
Fail(q, e) ==
    [q EXCEPT !.pc = "done", !.city = <<>>, !.up = "none", !.attempt = 0, !.err = e,
              !.status = ErrorResponse(e).status, !.code = ErrorResponse(e).code]

\* the name the geocoding upstream gives the place found for a query
UpstreamName(city) == Lower(city)

\* variant: a fetched answer the client rejects is fetched again while
\* attempts remain
AfterAttempt_RetryInvalid(q, u, e, answer, t) ==
    LET raised == TranslateFetchError(u, e)
        d == RetryDecision(raised, q.attempt, RetryMaxAttempts)
        result == ClientResult(u, answer)
    IN  IF d = "sleep"
        THEN [q EXCEPT !.pc = "call", !.attempt = q.attempt + 1, !.sleeps = q.sleeps + 1,
                       !.wake = t + WaitExponential(q.attempt, MinWait, MaxWait)]
        ELSE IF d = "raise" THEN Fail(q, TranslateClientError(u, Reraise(raised)))
        ELSE IF result # NoExc /\ q.attempt < RetryMaxAttempts
        THEN [q EXCEPT !.pc = "call", !.attempt = q.attempt + 1]
        ELSE IF result # NoExc THEN Fail(q, result)
        ELSE IF u = "geocoding" /\ q.direct
        THEN [q EXCEPT !.pc = "done", !.up = "none", !.attempt = 0,
                       !.name = UpstreamName(q.city)]
        ELSE IF u = "geocoding"
        THEN [q EXCEPT !.pc = "call", !.up = "weather", !.attempt = 1,
                       !.name = UpstreamName(q.city)]
        ELSE [q EXCEPT !.pc = "cache_set", !.up = "none", !.attempt = 0]

\* variant: a fetched answer the client rejects is fetched again, uncounted
AfterAttempt_Unbounded(q, u, e, answer, t) ==
    LET raised == TranslateFetchError(u, e)
        d == RetryDecision(raised, q.attempt, RetryMaxAttempts)
        result == ClientResult(u, answer)
    IN  IF d = "sleep"
        THEN [q EXCEPT !.pc = "call", !.attempt = q.attempt + 1, !.sleeps = q.sleeps + 1,
                       !.wake = t + WaitExponential(q.attempt, MinWait, MaxWait)]
        ELSE IF d = "raise" THEN Fail(q, TranslateClientError(u, Reraise(raised)))
        ELSE IF result # NoExc THEN [q EXCEPT !.pc = "call"]
        ELSE IF u = "geocoding" /\ q.direct
        THEN [q EXCEPT !.pc = "done", !.up = "none", !.attempt = 0,
                       !.name = UpstreamName(q.city)]
        ELSE IF u = "geocoding"
        THEN [q EXCEPT !.pc = "call", !.up = "weather", !.attempt = 1,
                       !.name = UpstreamName(q.city)]
        ELSE [q EXCEPT !.pc = "cache_set", !.up = "none", !.attempt = 0]

\* the request after one attempt of _fetch_*_data on upstream u, where the
\* breaker call raised e (NoExc: it returned `answer`), at time t
AfterAttempt(q, u, e, answer, t) ==
    LET raised == TranslateFetchError(u, e)
        d == RetryDecision(raised, q.attempt, RetryMaxAttempts)
        result == ClientResult(u, answer)
    IN  IF d = "sleep"
        THEN [q EXCEPT !.pc = "call", !.attempt = q.attempt + 1, !.sleeps = q.sleeps + 1,
                       !.wake = t + WaitExponential(q.attempt, MinWait, MaxWait)]
        ELSE IF d = "raise" THEN Fail(q, TranslateClientError(u, Reraise(raised)))
        ELSE IF result # NoExc THEN Fail(q, result)
        ELSE IF u = "geocoding" /\ q.direct
        THEN [q EXCEPT !.pc = "done", !.up = "none", !.attempt = 0,
                       !.name = UpstreamName(q.city)]
        ELSE IF u = "geocoding"
        THEN [q EXCEPT !.pc = "call", !.up = "weather", !.attempt = 1,
                       !.name = UpstreamName(q.city)]
        ELSE [q EXCEPT !.pc = "cache_set", !.up = "none", !.attempt = 0]

\* what a read of the store can meet: the value the store holds for the key
\* (or nothing), a store error, bytes that are not JSON, or JSON that is not
\* a response record
StoreReads == {"value", "error", "undecodable", "nonrecord"}

\* what a write of the store can do: store, fail inside CacheService.set
\* (which returns False), or raise out of it
StoreWrites == {"stored", "false", "raised"}

\* CacheService.get under contextlib.suppress, on entry e of the store
CacheGetResult(outcome, e) ==
    CASE outcome = "value" /\ e.present -> "record"
      [] outcome = "nonrecord" -> "other"
      [] OTHER -> "None"

\* variant: a hit that does not end the pipeline
AfterCacheGet_NoShortCut(q, outcome, e) ==
    LET data == CacheGetResult(outcome, e)
        q1 == [q EXCEPT !.cacheOps = q.cacheOps + 1, !.up = "geocoding", !.attempt = 1,
                        !.pc = "call"]
    IN  IF data = "None" THEN q1
        ELSE [q1 EXCEPT !.cached = TRUE,
                        !.name = IF data = "record" THEN e.city ELSE <<>>]

\* variant: a miss goes to the weather upstream with no geocoding
AfterCacheGet_SkipGeocoding(q, outcome, e) ==
    LET data == CacheGetResult(outcome, e)
        q1 == [q EXCEPT !.cacheOps = q.cacheOps + 1]
    IN  IF data = "None"
        THEN [q1 EXCEPT !.pc = "call", !.up = "weather", !.attempt = 1]
        ELSE [q1 EXCEPT !.pc = "cache_ttl", !.cached_data = data,
                        !.name = IF data = "record" THEN e.city ELSE <<>>]

\* the request after the cache lookup: `cached_data is not None` takes the
\* hit branch, anything else goes on to geocoding
AfterCacheGet(q, outcome, e) ==
    LET data == CacheGetResult(outcome, e)
        q1 == [q EXCEPT !.cacheOps = q.cacheOps + 1]
    IN  IF data = "None"
        THEN [q1 EXCEPT !.pc = "call", !.up = "geocoding", !.attempt = 1]
        ELSE [q1 EXCEPT !.pc = "cache_ttl", !.cached_data = data,
                        !.name = IF data = "record" THEN e.city ELSE <<>>]

\* variant: a hit that writes the record back before it answers
AfterCacheTtl_Rewrite(q, ttl) ==
    LET q1 == [q EXCEPT !.cacheOps = q.cacheOps + 1]
    IN  IF q.cached_data = "other"
        THEN Fail(q1, Exc("AttributeError", ""))
        ELSE [q1 EXCEPT !.pc = "cache_set", !.cached = TRUE, !.ttl = ttl]

\* the hit branch after get_ttl returned ttl: the cached response is built
\* from cached_data, which raises on a value that is not a record
AfterCacheTtl(q, ttl) ==
    LET q1 == [q EXCEPT !.cacheOps = q.cacheOps + 1]
    IN  IF q.cached_data = "other"
        THEN Fail(q1, Exc("AttributeError", ""))
        ELSE [q1 EXCEPT !.pc = "done", !.city = <<>>, !.status = 200, !.cached = TRUE,
                        !.ttl = ttl]

\* variant: the record stored under the query instead of the geocoded name
StoredEntry_Query(q, t) ==
    [present |-> TRUE, city |-> q.city, exp |-> t + CacheTtlSeconds]

\* response_data as CacheService.set stores it at time t
StoredEntry(q, t) ==
    [present |-> TRUE, city |-> q.name, exp |-> t + CacheTtlSeconds]

\* variant: an exception of the cache write reaches the handler's except clauses
AfterCacheSet_Unsuppressed(q, outcome) ==
    LET q1 == [q EXCEPT !.cacheOps = q.cacheOps + 1]
    IN  IF outcome = "raised" THEN Fail(q1, Exc("RuntimeError", ""))
        ELSE [q1 EXCEPT !.pc = "done", !.city = <<>>, !.status = 200]

\* variant: the fresh response built with the TTL just written
AfterCacheSet_WithTtl(q, outcome) ==
    [q EXCEPT !.pc = "done", !.city = <<>>, !.cacheOps = q.cacheOps + 1, !.status = 200,
              !.ttl = CacheTtlSeconds]

\* the fresh response, after the write-through under contextlib.suppress
AfterCacheSet(q, outcome) ==
    [q EXCEPT !.pc = "done", !.city = <<>>, !.cacheOps = q.cacheOps + 1, !.status = 200]

RtIdle ==
    [pc |-> "off", script |-> <<>>, max_attempts |-> 0, min_wait |-> 0, max_wait |-> 0,
     attempt |-> 0, invoked |-> 0, waits |-> <<>>, raised |-> NoExc]

(***************************************************************************)
(* Python values and JSON texts, for json.dumps / json.loads.  A value is  *)
(* [t |-> tag, v |-> content]; a dict is a sequence of <<key, value>>; a   *)
(* float holds its value in tenths.  A JSON text is a tree of the same     *)
(* form with the tags of JSON.                                             *)
(***************************************************************************)
PyNone == [t |-> "None", v |-> 0]
PyBool(b) == [t |-> "bool", v |-> b]
PyInt(n) == [t |-> "int", v |-> n]
PyFloat(tenths) == [t |-> "float", v |-> tenths]
PyStr(s) == [t |-> "str", v |-> s]
PyList(s) == [t |-> "list", v |-> s]
PyDict(pairs) == [t |-> "dict", v |-> pairs]

\* json.dumps(value)
RECURSIVE Dumps(_)
Dumps(x) ==
    CASE x.t = "None" -> [t |-> "null", v |-> 0]
      [] x.t = "bool" -> [t |-> IF x.v THEN "true" ELSE "false", v |-> 0]
      [] x.t = "int" -> [t |-> "number", v |-> [tenths |-> 10 * x.v, point |-> FALSE]]
      [] x.t = "float" -> [t |-> "number", v |-> [tenths |-> x.v, point |-> TRUE]]
      [] x.t = "str" -> [t |-> "string", v |-> x.v]
      [] x.t = "list" -> [t |-> "array", v |-> [i \in 1..Len(x.v) |-> Dumps(x.v[i])]]
      [] x.t = "dict" ->
            [t |-> "object", v |-> [i \in 1..Len(x.v) |-> <<x.v[i][1], Dumps(x.v[i][2])>>]]

\* json.loads(data)
RECURSIVE Loads(_)
Loads(j) ==
    CASE j.t = "null" -> PyNone
      [] j.t = "true" -> PyBool(TRUE)
      [] j.t = "false" -> PyBool(FALSE)
      [] j.t = "number" -> IF j.v.point THEN PyFloat(j.v.tenths) ELSE PyInt(j.v.tenths \div 10)
      [] j.t = "string" -> PyStr(j.v)
      [] j.t = "array" -> PyList([i \in 1..Len(j.v) |-> Loads(j.v[i])])
      [] j.t = "object" -> PyDict([i \in 1..Len(j.v) |-> <<j.v[i][1], Loads(j.v[i][2])>>])

\* a == b of Python, on values of the same shape
RECURSIVE PyEq(_, _)
PyEq(a, b) ==
    IF a.t \in {"int", "float"} /\ b.t \in {"int", "float"}
    THEN (IF a.t = "int" THEN 10 * a.v ELSE a.v) = (IF b.t = "int" THEN 10 * b.v ELSE b.v)
    ELSE /\ a.t = b.t
         /\ CASE a.t \in {"None"} -> TRUE
              [] a.t \in {"bool", "str"} -> a.v = b.v
              [] a.t = "list" ->
                    /\ Len(a.v) = Len(b.v)
                    /\ \A i \in 1..Len(a.v) : PyEq(a.v[i], b.v[i])
              [] a.t = "dict" ->
                    /\ Len(a.v) = Len(b.v)
                    /\ \A i \in 1..Len(a.v) :
                          \E j \in 1..Len(b.v) :
                              a.v[i][1] = b.v[j][1] /\ PyEq(a.v[i][2], b.v[j][2])

\* records as get_weather builds them (response_data), in a few shapes
RecordList ==
    << PyDict(<< <<"city", PyStr("ab")>>, <<"country", PyNone>>,
                 <<"coordinates", PyDict(<< <<"latitude", PyFloat(525)>>,
                                            <<"longitude", PyInt(13)>> >>)>> >>),
       PyDict(<< <<"city", PyStr("c")>>, <<"country", PyStr("DE")>>,
                 <<"current", PyDict(<< <<"temperature", PyFloat(150)>>,
                                        <<"is_day", PyBool(TRUE)>>,
                                        <<"codes", PyList(<<PyInt(3), PyNone>>)>> >>)>> >>),
       PyDict(<<>>) >>

\* the keys handed to the cache service
CacheKeys == { <<"A", "b">>, <<" ", "a", "B", "\t">>, <<"c">> }

\* the ttl argument of CacheService.set (None: not given)
TtlArgs == {None, 0, 2}

\* a CacheService object and its store (last: the operation made last)
NoService == [ttl_seconds |-> 0, store |-> <<>>, client |-> FALSE, last |-> [op |-> "none"]]

\* no weather answer being assembled
NoWeather == [pc |-> "none"]

\* the shutdown module after import: the event clear, no callback
\* registered, no handler running (callbacks: what each registered callback
\* does when called; stack: the frames of _handle_signal on the main thread,
\* innermost last; calls: the callbacks invoked so far, by index, in order;
\* signals: the signals delivered so far; exited: SystemExit left the
\* handler)
NoShutdown == [event |-> FALSE, callbacks |-> <<>>, stack |-> <<>>, calls |-> <<>>,
               exited |-> FALSE, signals |-> 0]

\* the module global _geocoding_breaker and the threads inside
\* get_geocoding_breaker (global: 0 is None, else the instance; made: the
\* instances constructed; epoch: the resets so far; th: each thread's
\* position, the epoch its call began in and the instance it was handed)
NoLazy == [global |-> 0, made |-> 0, epoch |-> 0,
           th |-> [r \in Threads |-> [pc |-> "out", epoch |-> 0, got |-> 0]]]

\* flask.g of a request: no request, or the request's context
\* (request_id: the attribute of g, None when it has none; local: the
\* handler's request_id variable; returned: what get_request_id has returned
\* in this request; status, body_id: the response and its request_id field;
\* x_request_id, x_correlation_id: the request's headers, None when not sent;
\* correlation_id: the attribute of g; logged: the identifiers bound to the
\* request's log lines; header_out: the response's X-Request-ID header)
NoContext == [active |-> FALSE, request_id |-> None, local |-> None, calls |-> 0,
              returned |-> {}, status |-> 0, body_id |-> None,
              x_request_id |-> None, x_correlation_id |-> None, correlation_id |-> None,
              logged |-> {}, header_out |-> None]

\* a health request (ping, probe: what the two probes met; redis, open_meteo:
\* the dependency statuses; status, http: the response)
IdleHealth == [pc |-> "idle", ping |-> "", probe |-> "", redis |-> "", open_meteo |-> "",
               status |-> "", http |-> 0]

(***************************************************************************)
(* Actions of the service.                                                 *)
(***************************************************************************)
Init ==
    /\ now = 0
    /\ breaker = [u \in Upstreams |-> NoBreaker]
    /\ lock = [u \in Upstreams |-> 0]
    /\ consec = [u \in Upstreams |-> 0]
    /\ req = [r \in Threads |-> IdleReq]
    /\ nreq = 0
    /\ cache = [k \in StoreKeys |-> NoEntry]
    /\ rt = RtIdle
    /\ g = [r \in Threads |-> NoContext]
    /\ uuids = 0
    /\ sent = <<>>
    /\ health = [r \in Threads |-> IdleHealth]
    /\ lazy = NoLazy
    /\ wx = NoWeather
    /\ sd = NoShutdown
    /\ cs = NoService

\* get_weather up to the end of validation; a rejected request keeps the
\* query it was given, an accepted one the stripped city
Start(r, arg) ==
    /\ req[r].pc \in {"idle", "done"}
    /\ nreq < MaxRequests
    /\ nreq' = nreq + 1
    /\ LET city == CityParam(arg)
           v == ValidateCity(city)
       IN  req' = [req EXCEPT ![r] =
                IF v # "OK"
                THEN [IdleReq EXCEPT !.pc = "done", !.arg = arg, !.status = 400, !.code = v]
                ELSE [IdleReq EXCEPT !.pc = "cache_get", !.city = city]]
    /\ UNCHANGED <<now, breaker, lock, consec, cache, rt, g, uuids, sent, health, cs, lazy, wx, sd>>

\* cache_service.get(cache_key) and the branch on its result
CacheGet(r, outcome) ==
    /\ req[r].pc = "cache_get"
    /\ LET q == req[r]
       IN  req' = [req EXCEPT ![r] = AfterCacheGet(q, outcome, StoreGet(MakeKey(Lower(q.city))))]
    /\ UNCHANGED <<now, breaker, lock, consec, nreq, cache, rt, g, uuids, sent, health, cs, lazy, wx, sd>>

\* cache_service.get_ttl(cache_key) and the cached response
CacheTtl(r, ok) ==
    /\ req[r].pc = "cache_ttl"
    /\ LET q == req[r]
           e == IF ok THEN StoreGet(MakeKey(Lower(q.city))) ELSE NoEntry
       IN  req' = [req EXCEPT ![r] =
                AfterCacheTtl(q, IF e.present THEN e.exp - now ELSE None)]
    /\ UNCHANGED <<now, breaker, lock, consec, nreq, cache, rt, g, uuids, sent, health, cs, lazy, wx, sd>>

\* variant: both clients on the geocoding breaker
BreakerFor_Shared(u) == "geocoding"

\* the breaker a client's _fetch_*_data gets: get_geocoding_breaker() in the
\* geocoding client, get_weather_breaker() in the weather client
BreakerFor(u) == u

\* one attempt of _fetch_*_data enters breaker.call: rejected by an open
\* breaker, or let through to _make_request with the breaker's lock held
BreakerEnter(r) ==
    /\ req[r].pc = "call"
    /\ now >= req[r].wake
    /\ LockFree(lock[BreakerFor(req[r].up)])
    /\ LET q == req[r]
           u == q.up
           bu == BreakerFor(u)
           b == GetBreaker(breaker[bu])
       IN  IF OpenRejects(b, now)
           THEN /\ breaker' = [breaker EXCEPT ![bu] = b]
                /\ req' = [req EXCEPT ![r] =
                       AfterAttempt(q, u, Exc("CircuitBreakerError", ""), "ok", now)]
                /\ lock' = lock
           ELSE /\ breaker' = [breaker EXCEPT ![bu] = LetThrough(b)]
                /\ req' = [req EXCEPT ![r] =
                       [q EXCEPT !.pc = "inflight", !.invoked[u] = q.invoked[u] + 1]]
                /\ lock' = [lock EXCEPT ![bu] = r]
    /\ UNCHANGED <<now, consec, nreq, cache, rt, g, uuids, sent, health, cs, lazy, wx, sd>>

\* _make_request raises e inside breaker.call
UpstreamFails(r, e) ==
    /\ req[r].pc = "inflight"
    /\ LET q == req[r]
           u == q.up
           bu == BreakerFor(u)
           b == breaker[bu]
       IN  /\ breaker' = [breaker EXCEPT ![bu] = HandleError(b, now)]
           /\ consec' = [consec EXCEPT ![bu] = consec[bu] + 1]
           /\ lock' = [lock EXCEPT ![bu] = 0]
           /\ req' = [req EXCEPT ![r] =
                  AfterAttempt([q EXCEPT !.recorded[u] = q.recorded[u] + 1],
                               u, RaisedByBreaker(b, e), "ok", now)]
    /\ UNCHANGED <<now, nreq, cache, rt, g, uuids, sent, health, cs, lazy, wx, sd>>

\* _make_request returns an answer inside breaker.call
UpstreamAnswers(r, answer) ==
    /\ req[r].pc = "inflight"
    /\ answer \in Answers(req[r].up)
    /\ LET q == req[r]
           u == q.up
           bu == BreakerFor(u)
       IN  /\ breaker' = [breaker EXCEPT ![bu] = HandleSuccess(breaker[bu])]
           /\ consec' = [consec EXCEPT ![bu] = 0]
           /\ lock' = [lock EXCEPT ![bu] = 0]
           /\ req' = [req EXCEPT ![r] = AfterAttempt(q, u, NoExc, answer, now)]
    /\ UNCHANGED <<now, nreq, cache, rt, g, uuids, sent, health, cs, lazy, wx, sd>>

\* cache_service.set(cache_key, response_data) and the fresh response
CacheSet(r, outcome) ==
    /\ req[r].pc = "cache_set"
    /\ LET q == req[r]
           k == MakeKey(Lower(q.city))
       IN  /\ cache' = IF outcome = "stored"
                       THEN [cache EXCEPT ![k] = StoredEntry(q, now)]
                       ELSE cache
           /\ req' = [req EXCEPT ![r] = AfterCacheSet(q, outcome)]
    /\ UNCHANGED <<now, breaker, lock, consec, nreq, rt, g, uuids, sent, health, cs, lazy, wx, sd>>

\* a second passes; the store drops the keys whose expiry is reached
Tick ==
    /\ now < MaxTime
    /\ now' = now + 1
    /\ cache' = [k \in StoreKeys |-> IF cache[k].present /\ cache[k].exp <= now + 1
                                     THEN NoEntry ELSE cache[k]]
    /\ UNCHANGED <<breaker, lock, consec, req, nreq, rt, g, uuids, sent, health, cs, lazy, wx, sd>>

\* reset_circuit_breakers, between calls
ResetCircuitBreakers ==
    /\ \A u \in Upstreams : lock[u] = 0
    /\ \E u \in Upstreams : breaker[u].created
    /\ breaker' = [u \in Upstreams |-> NoBreaker]
    /\ consec' = [u \in Upstreams |-> 0]
    /\ UNCHANGED <<now, lock, req, nreq, cache, rt, g, uuids, sent, health, cs, lazy, wx, sd>>

Next ==
    \/ \E r \in Threads, arg \in CityArgs : Start(r, arg)
    \/ \E r \in Threads, outcome \in StoreReads : CacheGet(r, outcome)
    \/ \E r \in Threads, ok \in BOOLEAN : CacheTtl(r, ok)
    \/ \E r \in Threads : BreakerEnter(r)
    \/ \E r \in Threads, e \in Failures : UpstreamFails(r, e)
    \/ \E r \in Threads, answer \in GeoAnswers \cup WeatherAnswers : UpstreamAnswers(r, answer)
    \/ \E r \in Threads, outcome \in StoreWrites : CacheSet(r, outcome)
    \/ Tick
    \/ ResetCircuitBreakers

Spec == Init /\ [][Next]_vars

(***************************************************************************)
(* with_retry around an arbitrary operation: the operation's i-th          *)
(* invocation does what script[i] says and succeeds beyond the script.     *)
(***************************************************************************)
RetryOutcomes ==
    Transient \cup {Exc("ReadError", ""), Exc("CircuitBreakerOpen", ""), NoExc}

Scripts == UNION { [1..n -> RetryOutcomes] : n \in 0..MaxScript }

\* (min_wait, max_wait) arguments: the defaults and a narrow window
WaitArgs == { <<MinWait, MaxWait>>, <<2, 3>> }

Outcome(script, i) == IF i <= Len(script) THEN script[i] ELSE NoExc

InitRetry ==
    /\ now = 0
    /\ breaker = [u \in Upstreams |-> NoBreaker]
    /\ lock = [u \in Upstreams |-> 0]
    /\ consec = [u \in Upstreams |-> 0]
    /\ req = [r \in Threads |-> IdleReq]
    /\ nreq = 0
    /\ cache = [k \in StoreKeys |-> NoEntry]
    /\ g = [r \in Threads |-> NoContext]
    /\ uuids = 0
    /\ sent = <<>>
    /\ health = [r \in Threads |-> IdleHealth]
    /\ lazy = NoLazy
    /\ wx = NoWeather
    /\ sd = NoShutdown
    /\ cs = NoService
    /\ \E s \in Scripts, m \in 1..MaxAttemptsArg, w \in WaitArgs :
          rt = [pc |-> "ready", script |-> s, max_attempts |-> m,
                min_wait |-> w[1], max_wait |-> w[2],
                attempt |-> 1, invoked |-> 0, waits |-> <<>>, raised |-> NoExc]

\* the wrapper calls the operation and decides on its outcome
RetryInvoke ==
    /\ rt.pc = "ready"
    /\ LET e == Outcome(rt.script, rt.invoked + 1)
           d == RetryDecision(e, rt.attempt, rt.max_attempts)
       IN  rt' = IF d = "return"
                 THEN [rt EXCEPT !.pc = "returned", !.invoked = rt.invoked + 1]
                 ELSE IF d = "raise"
                 THEN [rt EXCEPT !.pc = "raised", !.invoked = rt.invoked + 1,
                                 !.raised = Reraise(e)]
                 ELSE [rt EXCEPT !.pc = "sleeping", !.invoked = rt.invoked + 1,
                                 !.waits = Append(rt.waits,
                                     WaitExponential(rt.attempt, rt.min_wait, rt.max_wait))]
    /\ UNCHANGED <<now, breaker, lock, consec, req, nreq, cache, g, uuids, sent, health, cs, lazy, wx, sd>>

\* the sleep between two attempts ends
RetryWake ==
    /\ rt.pc = "sleeping"
    /\ rt' = [rt EXCEPT !.pc = "ready", !.attempt = rt.attempt + 1]
    /\ UNCHANGED <<now, breaker, lock, consec, req, nreq, cache, g, uuids, sent, health, cs, lazy, wx, sd>>

NextRetry == RetryInvoke \/ RetryWake

SpecRetry == InitRetry /\ [][NextRetry]_vars

RetryEnded == rt.pc \in {"returned", "raised"}

\* the number of transient failures the script starts with
RECURSIVE LeadingTransient(_)
LeadingTransient(script) ==
    IF script # <<>> /\ Head(script) \in Transient
    THEN 1 + LeadingTransient(Tail(script))
    ELSE 0

\* C4: an operation that fails transiently k < max_attempts times and then
\* succeeds makes the wrapped call return, after exactly k+1 invocations.
C4_RetryThenSuccess ==
    LET k == LeadingTransient(rt.script)
    IN  (RetryEnded /\ k < rt.max_attempts /\ Outcome(rt.script, k + 1) = NoExc)
            => (rt.pc = "returned" /\ rt.invoked = k + 1)

C4_Witness ==
    /\ rt.pc = "returned"
    /\ rt.invoked = 3
    /\ LeadingTransient(rt.script) = 2

\* C5: an operation that fails transiently on every attempt is invoked
\* exactly max_attempts times and the call raises the last attempt's error
\* itself.
C5_RetryExhausted ==
    (RetryEnded /\ LeadingTransient(rt.script) >= rt.max_attempts)
        => /\ rt.pc = "raised"
           /\ rt.invoked = rt.max_attempts
           /\ rt.raised = rt.script[rt.max_attempts]

C5_Witness ==
    /\ rt.pc = "raised"
    /\ rt.max_attempts = 3
    /\ rt.invoked = 3
    /\ rt.raised = Exc("HTTPStatusError", "")

\* C6: an error that is not transient propagates at once: the operation is
\* invoked once, the call raises that error and never waits.
C6_NonTransientPropagates ==
    (Outcome(rt.script, 1) \notin Transient \cup {NoExc})
        => /\ rt.invoked <= 1
           /\ rt.waits = <<>>
           /\ rt.pc \in {"ready", "raised"}
           /\ rt.invoked = 1 => (rt.pc = "raised" /\ rt.raised = rt.script[1])

C6_Witness ==
    /\ rt.pc = "raised"
    /\ rt.invoked = 1
    /\ rt.raised = Exc("CircuitBreakerOpen", "")
    /\ rt.max_attempts = 3

(***************************************************************************)
(* Properties of the service.                                              *)
(***************************************************************************)
\* thread r makes its breaker.call entry in this step
Enters(r) == req[r].pc = "call" /\ req'[r] # req[r]

\* a call on upstream u ends in this step
Leaves(u) == lock[u] # 0 /\ lock'[u] = 0

InFlight(u) == {r \in Threads : req[r].pc = "inflight" /\ req[r].up = u}

Unavailable(u) == Exc(ServiceError(u), "temporarily unavailable")
UpstreamFailed(u) == Exc(ServiceError(u), "upstream failed")

C1_Opened ==
    \A u \in Upstreams :
        consec[u] >= FailMax =>
            (breaker[u].state \in {"open", "half_open"} /\ breaker[u].opened_at # None)

C1_Step ==
    \A r \in Threads :
        LET u == req[r].up
            b == breaker[u]
        IN  (Enters(r) /\ b.state = "open" /\ now < b.opened_at + ResetTimeout)
                => /\ req'[r].invoked = req[r].invoked
                   /\ req'[r].pc = "done"
                   /\ req'[r].err = Unavailable(u)
                   /\ breaker'[u] = b
                   /\ lock'[u] = 0

\* C1: once fail_max consecutive failures are recorded the breaker is open,
\* and every call entering an open breaker before reset_timeout has elapsed
\* since it opened fails with the breaker-open error without invoking the
\* upstream operation.
C1_FailFast == [](C1_Opened) /\ [][C1_Step]_vars

C1_Witness ==
    /\ breaker["geocoding"].state = "open"
    /\ now < breaker["geocoding"].opened_at + ResetTimeout
    /\ consec["geocoding"] = FailMax
    /\ req[1].pc = "done"
    /\ req[1].err = Unavailable("geocoding")
    /\ req[1].invoked["geocoding"] = 0

C2_Step ==
    \A u \in Upstreams :
        LET b == breaker[u]
            c == breaker'[u]
        IN  (b.created /\ c.created /\ b.state # c.state) =>
                \/ /\ b.state = "closed" /\ c.state = "open"
                   /\ consec'[u] = consec[u] + 1
                   /\ consec'[u] >= FailMax
                   /\ c.opened_at = now
                \/ /\ b.state = "open" /\ c.state = "half_open"
                   /\ now >= b.opened_at + ResetTimeout
                \/ /\ b.state = "half_open" /\ c.state = "closed"
                   /\ Leaves(u)
                   /\ consec'[u] = 0
                \/ /\ b.state = "half_open" /\ c.state = "open"
                   /\ Leaves(u)
                   /\ consec'[u] = consec[u] + 1
                   /\ c.opened_at = now

\* C2: a breaker changes state only closed -> open on the fail_max-th
\* consecutive failure, open -> half_open once reset_timeout has elapsed
\* since it opened, half_open -> closed when the probing call succeeds and
\* half_open -> open when it fails.
C2_Transitions == [][C2_Step]_vars

C2_Witness ==
    /\ breaker["geocoding"].state = "closed"
    /\ breaker["geocoding"].opened_at # None
    /\ breaker["geocoding"].fail_counter = 0
    /\ req[1].pc = "call" /\ req[1].up = "weather"

\* C3: while a breaker is half_open exactly one call is through to the
\* upstream, and at no time are two calls of one breaker through at once,
\* however many callers have arrived.
C3_OneProbe ==
    \A u \in Upstreams :
        /\ Cardinality(InFlight(u)) <= 1
        /\ breaker[u].state = "half_open" => Cardinality(InFlight(u)) = 1
        /\ InFlight(u) = IF lock[u] = 0 THEN {} ELSE {lock[u]}

C3_Witness ==
    /\ breaker["weather"].state = "half_open"
    /\ req[1].pc = "inflight" /\ req[1].up = "weather"
    /\ req[2].pc = "call" /\ req[2].up = "weather"

\* C7: an upstream failure is surfaced as GeocodingError /
\* WeatherServiceError only after retry_max_attempts attempts on the
\* upstream.
C7_SurfacedAfterRetries ==
    \A r \in Threads, u \in Upstreams :
        (req[r].pc = "done" /\ req[r].err = UpstreamFailed(u))
            => req[r].invoked[u] = RetryMaxAttempts

C8_Once ==
    \A r \in Threads, u \in Upstreams :
        /\ req[r].recorded[u] <= 1
        /\ (req[r].pc = "done" /\ req[r].err = UpstreamFailed(u)) => req[r].recorded[u] = 1

C8_Step ==
    \A u \in Upstreams :
        consec'[u] = consec[u] + 1
            => breaker'[u].fail_counter = breaker[u].fail_counter + 1

C9_Counter ==
    \A u \in Upstreams :
        breaker[u].state = "closed" =>
            (breaker[u].fail_counter = consec[u] /\ consec[u] < FailMax)

C9_Step ==
    \A u \in Upstreams :
        /\ (breaker[u].state = "closed" /\ Leaves(u) /\ consec'[u] = 0)
              => (breaker'[u].fail_counter = 0 /\ breaker'[u].state = "closed")
        /\ (breaker[u].state = "closed" /\ breaker'[u].state = "open")
              => consec'[u] >= FailMax

\* C9: a success in closed state resets the consecutive-failure counter to
\* zero, so a closed breaker's counter is the number of failures since the
\* last success and the breaker opens only on fail_max failures in a row.
C9_SuccessResets == [](C9_Counter) /\ [][C9_Step]_vars

C9_Witness ==
    /\ nreq = 3
    /\ req[1].pc = "done" /\ req[1].recorded["geocoding"] = 1
    /\ req[2].pc = "done" /\ req[2].recorded["geocoding"] = 1
    /\ breaker["geocoding"].state = "closed"
    /\ breaker["geocoding"].fail_counter = 1
    /\ breaker["geocoding"].opened_at = None
    /\ breaker["weather"].created

Rejected(q) == q.pc = "done" /\ q.status = 400

C10_Codes ==
    \A r \in Threads :
        LET q == req[r]
            raw == IF q.arg = <<>> THEN <<>> ELSE q.arg[1]
            blank == \A i \in 1..Len(raw) : raw[i] \in Whitespace
        IN  /\ Rejected(q) =>
                /\ q.code \in {"MISSING_PARAMETER", "INVALID_PARAMETER"}
                /\ q.code = "MISSING_PARAMETER" <=> blank
                /\ q.code = "INVALID_PARAMETER" <=> (~blank /\ Len(Strip(raw)) > MaxCityLen)
                /\ q.cacheOps = 0
                /\ \A u \in Upstreams : q.invoked[u] = 0 /\ q.recorded[u] = 0
            /\ (q.pc # "idle" /\ ~Rejected(q) /\ q.city # <<>>) =>
                (Len(q.city) <= MaxCityLen /\ q.city = Strip(q.city))
            /\ q.pc \in {"cache_get", "cache_ttl", "call", "inflight", "cache_set"} => q.city # <<>>

C10_Step ==
    \A r \in Threads :
        (req'[r] # req[r] /\ Rejected(req'[r]))
            => (breaker' = breaker /\ cache' = cache /\ lock' = lock /\ consec' = consec)

\* C10: a missing, empty or whitespace-only city is rejected with 400
\* MISSING_PARAMETER, a city whose trimmed length exceeds 100 with 400
\* INVALID_PARAMETER, a trimmed length of exactly 100 is accepted; a
\* rejection makes no cache operation and no upstream call and changes no
\* breaker.
C10_Validation == [](C10_Codes) /\ [][C10_Step]_vars

C10_Witness ==
    /\ Rejected(req[1]) /\ req[1].code = "INVALID_PARAMETER"
    /\ req[2].pc = "cache_get" /\ Len(req[2].city) = MaxCityLen
    /\ breaker["geocoding"].state = "open"

(***************************************************************************)
(* The cache branch of GET /weather.                                       *)
(***************************************************************************)
\* the store key of the request in flight on thread r
KeyOf(r) == MakeKey(Lower(req[r].city))

\* request q ended with the cached response
CachedResponse(q) == q.pc = "done" /\ q.cached

C11_Hit ==
    \A r \in Threads :
        LET q == req[r]
        IN  /\ (q.pc = "cache_ttl" \/ CachedResponse(q)) =>
                \A u \in Upstreams : q.invoked[u] = 0 /\ q.recorded[u] = 0
            /\ CachedResponse(q) =>
                (q.status = 200 /\ q.err = NoExc /\ q.cached_data = "record" /\ q.cacheOps = 2)

C11_Step ==
    \A r \in Threads :
        LET q == req[r]
            q2 == req'[r]
        IN  /\ (q.pc = "cache_get" /\ q2.pc = "cache_ttl" /\ q2.cached_data = "record") =>
                /\ cache[KeyOf(r)].present /\ q2.name = cache[KeyOf(r)].city
                /\ breaker' = breaker /\ lock' = lock /\ consec' = consec /\ cache' = cache
            /\ (q.pc = "cache_ttl" /\ q.cached_data = "record" /\ q2 # q) =>
                /\ CachedResponse(q2) /\ q2.status = 200 /\ q2.name = q.name
                /\ breaker' = breaker /\ lock' = lock /\ consec' = consec /\ cache' = cache

\* C11: when the cache lookup returns a record the request answers 200 with
\* cached=true and the record's data, no upstream is invoked and no breaker
\* changes, whatever the breakers' states are.
C11_HitSelfContained == [](C11_Hit) /\ [][C11_Step]_vars

C11_Witness ==
    /\ CachedResponse(req[1]) /\ req[1].status = 200 /\ req[1].name = <<"a", "b">>
    /\ breaker["geocoding"].state = "open"
    /\ now = 0

(***************************************************************************)
(* The service with a working store and upstreams that answer.             *)
(***************************************************************************)
NextWorking ==
    \/ \E r \in Threads, arg \in CityArgs : Start(r, arg)
    \/ \E r \in Threads : CacheGet(r, "value")
    \/ \E r \in Threads : CacheTtl(r, TRUE)
    \/ \E r \in Threads : BreakerEnter(r)
    \/ \E r \in Threads : UpstreamAnswers(r, "ok")
    \/ \E r \in Threads : CacheSet(r, "stored")
    \/ Tick

SpecWorking == Init /\ [][NextWorking]_vars

C12_Live ==
    /\ \A k \in StoreKeys : cache[k].present => now < cache[k].exp
    /\ \A r \in Threads : req[r].pc = "done" => req[r].status \in {200, 400}

C12_Step ==
    /\ \A r \in Threads :
        LET q == req[r]
            q2 == req'[r]
            k == KeyOf(r)
        IN  /\ (q.pc = "cache_get" /\ q2 # q) =>
                IF cache[k].present
                THEN q2.pc = "cache_ttl" /\ q2.name = cache[k].city
                ELSE q2.pc = "call" /\ q2.up = "geocoding"
            /\ (q.pc = "cache_ttl" /\ q2 # q) =>
                (CachedResponse(q2) /\ q2.status = 200 /\ q2.name = q.name)
            /\ (q.pc = "cache_set" /\ q2 # q) =>
                /\ q2.pc = "done" /\ q2.status = 200 /\ ~q2.cached
                /\ cache'[k] = [present |-> TRUE, city |-> q2.name,
                                exp |-> now + CacheTtlSeconds]
    /\ \A k \in StoreKeys :
        cache[k].present =>
            \/ cache'[k].present /\ cache'[k].city = cache[k].city
            \/ now' >= cache[k].exp

\* C12: with a working store and answering upstreams, a request that misses
\* ends 200 with cached=false and stores what it answered; the record stays
\* until its TTL has passed, and a request for the same city within that
\* time ends 200 with cached=true and the data of the first response.
C12_MissThenHit == [](C12_Live) /\ [][C12_Step]_vars

C12_Witness ==
    /\ nreq = 2
    /\ req[1].pc = "done" /\ req[1].status = 200 /\ ~req[1].cached
    /\ CachedResponse(req[2]) /\ req[2].status = 200
    /\ req[2].name = req[1].name /\ req[1].name = <<"a", "b">>
    /\ req[2].ttl = CacheTtlSeconds

(***************************************************************************)
(* The error responses of GET /weather.                                    *)
(***************************************************************************)
\* request q ended after a cache miss
MissEnded(q) == q.pc = "done" /\ q.cacheOps >= 1 /\ q.cached_data = "None"

UpstreamCode(u) == IF u = "geocoding" THEN "GEOCODING_ERROR" ELSE "WEATHER_SERVICE_ERROR"

C13_Codes ==
    \A r \in Threads :
        LET q == req[r]
        IN  MissEnded(q) =>
              /\ q.err.type = "CityNotFoundError" =>
                    (q.status = 404 /\ q.code = "CITY_NOT_FOUND")
              /\ q.err.type = "GeocodingError" =>
                    (q.status = 502 /\ q.code = "GEOCODING_ERROR")
              /\ q.err.type = "WeatherServiceError" =>
                    (q.status = 502 /\ q.code = "WEATHER_SERVICE_ERROR")
              /\ q.status = 404 =>
                    /\ q.err = Exc("CityNotFoundError", "not found")
                    /\ q.invoked["geocoding"] >= 1 /\ q.invoked["weather"] = 0

\* the geocoding upstream answered (no failure recorded) and the request ended
C13_Step ==
    \A r \in Threads :
        LET q == req[r]
            q2 == req'[r]
        IN  (q.pc = "inflight" /\ q.up = "geocoding" /\ q2.pc = "done"
                /\ q2.recorded = q.recorded)
            => /\ q2.status \in {404, 500}
               /\ q2.status = 404 <=> q2.err.type = "CityNotFoundError"

\* C13: on a cache miss CityNotFound (empty geocoding result) ends in 404
\* CITY_NOT_FOUND and never 502, any other GeocodingError in 502
\* GEOCODING_ERROR, a WeatherServiceError in 502 WEATHER_SERVICE_ERROR.
C13_ErrorMapping == [](C13_Codes) /\ [][C13_Step]_vars

C13_Witness ==
    /\ MissEnded(req[1]) /\ req[1].status = 404 /\ req[1].code = "CITY_NOT_FOUND"
    /\ MissEnded(req[2]) /\ req[2].status = 502 /\ req[2].code = "WEATHER_SERVICE_ERROR"
    /\ req[2].err = Exc("WeatherServiceError", "invalid response")
    /\ nreq = 2

C14_Surface ==
    \A r \in Threads :
        LET q == req[r]
        IN  (q.pc = "done" /\ q.err.msg = "temporarily unavailable") =>
              /\ q.err.type \in {"GeocodingError", "WeatherServiceError"}
              /\ q.status = 502
              /\ q.code = IF q.err.type = "GeocodingError"
                          THEN "GEOCODING_ERROR" ELSE "WEATHER_SERVICE_ERROR"

C14_Step ==
    \A r \in Threads :
        LET u == req[r].up
            b == breaker[u]
            q2 == req'[r]
        IN  (Enters(r) /\ b.state = "open" /\ now < b.opened_at + ResetTimeout)
                => /\ q2.err = Exc(ServiceError(u), "temporarily unavailable")
                   /\ q2.status = 502 /\ q2.code = UpstreamCode(u)

C15_LookupErrorIsMiss ==
    \A r \in Threads :
        LET q == req[r]
        IN  (q.pc = "done" /\ q.status >= 500) =>
                (q.invoked["geocoding"] >= 1 \/ q.err = Unavailable("geocoding"))

C16_Fresh ==
    \A r \in Threads :
        LET q == req[r]
        IN  (q.pc = "done" /\ q.status = 200 /\ ~q.cached) =>
              /\ q.err = NoExc /\ q.ttl = None /\ q.cacheOps = 2
              /\ q.name # <<>>
              /\ \A u \in Upstreams : q.invoked[u] >= 1

C16_Step ==
    \A r \in Threads :
        LET q == req[r]
            q2 == req'[r]
        IN  (q.pc = "cache_set" /\ q2 # q) =>
              /\ q2.pc = "done" /\ q2.status = 200 /\ ~q2.cached
              /\ q2.name = q.name /\ q2.err = NoExc /\ q2.ttl = None
              /\ \/ cache' = cache
                 \/ cache' = [cache EXCEPT ![KeyOf(r)] =
                        [present |-> TRUE, city |-> q.name, exp |-> now + CacheTtlSeconds]]

\* C16: when geocoding and weather both succeeded on a miss the request
\* returns 200 with cached=false and the same body whether the cache write
\* stores the record, fails or raises.
C16_WriteFailureIgnored == [](C16_Fresh) /\ [][C16_Step]_vars

C16_Witness ==
    /\ nreq = 1 /\ now = 0
    /\ req[1].pc = "done" /\ req[1].status = 200 /\ ~req[1].cached
    /\ req[1].name = <<"a", "b">>
    /\ \A k \in StoreKeys : ~cache[k].present

HandlerClasses == {"CityNotFoundError", "GeocodingError", "WeatherServiceError"}

Terminals ==
    { [status |-> 200, code |-> "cached"], [status |-> 200, code |-> "fresh"],
      [status |-> 400, code |-> "MISSING_PARAMETER"],
      [status |-> 400, code |-> "INVALID_PARAMETER"],
      [status |-> 404, code |-> "CITY_NOT_FOUND"],
      [status |-> 502, code |-> "GEOCODING_ERROR"],
      [status |-> 502, code |-> "WEATHER_SERVICE_ERROR"],
      [status |-> 500, code |-> "INTERNAL_ERROR"] }

\* variant: a new identifier on every call
GetRequestId_Regenerate(ctx, fresh) ==
    [ctx EXCEPT !.request_id = fresh, !.calls = ctx.calls + 1,
                !.returned = ctx.returned \cup {fresh}]

\* get_request_id on context ctx, where uuid4 would give `fresh`
GetRequestId(ctx, fresh) ==
    IF ctx.request_id # None
    THEN [ctx EXCEPT !.calls = ctx.calls + 1,
                     !.returned = ctx.returned \cup {ctx.request_id}]
    ELSE [ctx EXCEPT !.request_id = fresh, !.calls = ctx.calls + 1,
                     !.returned = ctx.returned \cup {fresh}]

\* a request arrives on thread r: flask pushes a new context
BeginRequest(r) ==
    /\ ~g[r].active
    /\ nreq < MaxRequests
    /\ nreq' = nreq + 1
    /\ g' = [g EXCEPT ![r] = [NoContext EXCEPT !.active = TRUE]]
    /\ UNCHANGED <<now, breaker, lock, consec, req, cache, rt, uuids, sent, health, cs, lazy, wx, sd>>

\* some code of the request calls get_request_id
CallGetRequestId(r) ==
    /\ g[r].active
    /\ g[r].calls < MaxCalls
    /\ LET c == GetRequestId(g[r], uuids + 1)
       IN  /\ g' = [g EXCEPT ![r] = c]
           /\ uuids' = IF c.request_id # g[r].request_id THEN uuids + 1 ELSE uuids
    /\ UNCHANGED <<now, breaker, lock, consec, req, nreq, cache, rt, sent, health, cs, lazy, wx, sd>>

\* get_weather starts: request_id = get_request_id()
EnterHandler(r) ==
    /\ g[r].active
    /\ g[r].local = None
    /\ LET c == GetRequestId(g[r], uuids + 1)
       IN  /\ g' = [g EXCEPT ![r] = [c EXCEPT !.local = c.request_id]]
           /\ uuids' = IF c.request_id # g[r].request_id THEN uuids + 1 ELSE uuids
    /\ UNCHANGED <<now, breaker, lock, consec, req, nreq, cache, rt, sent, health, cs, lazy, wx, sd>>

\* get_weather returns in terminal state t, request_id in the body
Respond(r, t) ==
    /\ g[r].active
    /\ g[r].local # None
    /\ g[r].status = 0
    /\ g' = [g EXCEPT ![r] = [g[r] EXCEPT !.status = t.status, !.body_id = g[r].local]]
    /\ sent' = Append(sent, g[r].local)
    /\ UNCHANGED <<now, breaker, lock, consec, req, nreq, cache, rt, uuids, health, cs, lazy, wx, sd>>

\* the response is sent: flask pops the context
EndRequest(r) ==
    /\ g[r].active
    /\ g[r].status # 0
    /\ g' = [g EXCEPT ![r] = NoContext]
    /\ UNCHANGED <<now, breaker, lock, consec, req, nreq, cache, rt, uuids, sent, health, cs, lazy, wx, sd>>

NextRequestId ==
    \/ \E r \in Threads : BeginRequest(r)
    \/ \E r \in Threads : CallGetRequestId(r)
    \/ \E r \in Threads : EnterHandler(r)
    \/ \E r \in Threads, t \in Terminals : Respond(r, t)
    \/ \E r \in Threads : EndRequest(r)

SpecRequestId == Init /\ [][NextRequestId]_vars

\* C18: every response carries the identifier of its request: every
\* get_request_id call of a request returned that one identifier, it was
\* generated once, and no two requests have the same.
C18_RequestId ==
    /\ \A r \in Threads :
        LET c == g[r]
        IN  /\ Cardinality(c.returned) <= 1
            /\ c.local # None => (c.returned = {c.local} /\ c.request_id = c.local)
            /\ c.status # 0 => (c.body_id # None /\ c.body_id = c.local)
    /\ \A i, j \in DOMAIN sent : i # j => sent[i] # sent[j]
    /\ \A r1, r2 \in Threads :
        (r1 # r2 /\ g[r1].request_id # None /\ g[r2].request_id # None)
            => g[r1].request_id # g[r2].request_id
    /\ uuids <= nreq

C18_Witness ==
    /\ Len(sent) = 3
    /\ g[1].status = 500 /\ g[1].calls = MaxCalls
    /\ g[2].status = 200
    /\ g[1].body_id # g[2].body_id

(***************************************************************************)
(* GET /health.                                                            *)
(***************************************************************************)
\* what CacheService().is_connected() can meet: the ping answers, a
\* redis.RedisError, or another exception (a malformed REDIS_URL)
RedisProbes == {"pong", "RedisError", "Exception"}

\* what WeatherService().is_available() can meet: a response with status 200
\* or another status, an httpx.RequestError, or another exception
MeteoProbes == {"200", "503", "RequestError", "Exception"}

\* CacheService.is_connected
IsConnected(o) ==
    CASE o = "pong" -> "True"
      [] o = "RedisError" -> "False"
      [] OTHER -> "raise"

\* WeatherService.is_available
IsAvailable(o) ==
    CASE o = "200" -> "True"
      [] o \in {"503", "RequestError"} -> "False"
      [] OTHER -> "raise"

\* variant: no except clause around the probe
CheckRedisHealth_Unguarded(o) ==
    CASE IsConnected(o) = "True" -> "connected"
      [] IsConnected(o) = "False" -> "disconnected"
      [] OTHER -> "raise"

\* _check_redis_health
CheckRedisHealth(o) == IF IsConnected(o) = "True" THEN "connected" ELSE "disconnected"

\* _check_open_meteo_health
CheckOpenMeteoHealth(o) == IF IsAvailable(o) = "True" THEN "available" ELSE "unavailable"

GoodStatuses == {"connected", "available", "not_configured"}

\* variant: one good dependency is enough
OverallStatus_Any(redis, open_meteo) ==
    IF redis \in GoodStatuses \/ open_meteo \in GoodStatuses THEN "healthy" ELSE "degraded"

\* all_healthy and status of health_check
OverallStatus(redis, open_meteo) ==
    IF redis \in GoodStatuses /\ open_meteo \in GoodStatuses THEN "healthy" ELSE "degraded"

\* health_check starts
HealthStart(r) ==
    /\ health[r].pc \in {"idle", "done"}
    /\ health' = [health EXCEPT ![r] = [IdleHealth EXCEPT !.pc = "redis"]]
    /\ UNCHANGED <<now, breaker, lock, consec, req, nreq, cache, rt, g, uuids, sent, cs, lazy, wx, sd>>

\* "redis": _check_redis_health(); an exception leaving it would leave the
\* view, which flask answers with 500
CheckRedis(r, o) ==
    /\ health[r].pc = "redis"
    /\ LET s == CheckRedisHealth(o)
       IN  health' = [health EXCEPT ![r] =
                IF s = "raise"
                THEN [health[r] EXCEPT !.pc = "done", !.ping = o, !.http = 500]
                ELSE [health[r] EXCEPT !.pc = "open_meteo", !.ping = o, !.redis = s]]
    /\ UNCHANGED <<now, breaker, lock, consec, req, nreq, cache, rt, g, uuids, sent, cs, lazy, wx, sd>>

\* "open_meteo": _check_open_meteo_health()
CheckOpenMeteo(r, o) ==
    /\ health[r].pc = "open_meteo"
    /\ LET s == CheckOpenMeteoHealth(o)
       IN  health' = [health EXCEPT ![r] =
                IF s = "raise"
                THEN [health[r] EXCEPT !.pc = "done", !.probe = o, !.http = 500]
                ELSE [health[r] EXCEPT !.pc = "respond", !.probe = o, !.open_meteo = s]]
    /\ UNCHANGED <<now, breaker, lock, consec, req, nreq, cache, rt, g, uuids, sent, cs, lazy, wx, sd>>

\* the overall status and the response
HealthRespond(r) ==
    /\ health[r].pc = "respond"
    /\ health' = [health EXCEPT ![r] =
            [health[r] EXCEPT !.pc = "done", !.http = 200,
                              !.status = OverallStatus(health[r].redis, health[r].open_meteo)]]
    /\ UNCHANGED <<now, breaker, lock, consec, req, nreq, cache, rt, g, uuids, sent, cs, lazy, wx, sd>>

NextHealth ==
    \/ \E r \in Threads : HealthStart(r)
    \/ \E r \in Threads, o \in RedisProbes : CheckRedis(r, o)
    \/ \E r \in Threads, o \in MeteoProbes : CheckOpenMeteo(r, o)
    \/ \E r \in Threads : HealthRespond(r)

\* the breakers a health check can find: not created, closed without and
\* with a recorded failure, open, half open
HealthBreakers ==
    { NoBreaker, NewBreaker,
      [created |-> TRUE, state |-> "closed", fail_counter |-> 1, opened_at |-> None],
      [created |-> TRUE, state |-> "open", fail_counter |-> FailMax, opened_at |-> 0],
      [created |-> TRUE, state |-> "half_open", fail_counter |-> FailMax, opened_at |-> 0] }

InitHealth ==
    /\ now = 0
    /\ breaker \in [Upstreams -> HealthBreakers]
    /\ lock = [u \in Upstreams |-> 0]
    /\ consec = [u \in Upstreams |-> breaker[u].fail_counter]
    /\ req = [r \in Threads |-> IdleReq]
    /\ nreq = 0
    /\ cache = [k \in StoreKeys |-> NoEntry]
    /\ rt = RtIdle
    /\ g = [r \in Threads |-> NoContext]
    /\ uuids = 0
    /\ sent = <<>>
    /\ health = [r \in Threads |-> IdleHealth]
    /\ lazy = NoLazy
    /\ wx = NoWeather
    /\ sd = NoShutdown
    /\ cs = NoService

SpecHealth == InitHealth /\ [][NextHealth]_vars

\* C19: the overall status is 'healthy' exactly when redis is 'connected'
\* and open_meteo is 'available', and 'degraded' in every other combination.
C19_HealthyIff ==
    \A r \in Threads :
        LET h == health[r]
        IN  (h.pc = "done" /\ h.http = 200) =>
              /\ h.status \in {"healthy", "degraded"}
              /\ h.status = "healthy" <=> (h.redis = "connected" /\ h.open_meteo = "available")
              /\ h.redis = "connected" <=> h.ping = "pong"
              /\ h.open_meteo = "available" <=> h.probe = "200"

C19_Witness ==
    /\ health[1].pc = "done" /\ health[1].status = "degraded"
    /\ health[1].redis = "disconnected" /\ health[1].open_meteo = "available"
    /\ health[2].pc = "done" /\ health[2].status = "healthy"

\* C20: whatever either probe meets, both probes run, each resolves to one
\* of its two status values, and the response is 200.
C20_AlwaysAnswers ==
    \A r \in Threads :
        LET h == health[r]
        IN  /\ h.pc \in {"open_meteo", "respond", "done"} =>
                (h.ping \in RedisProbes /\ h.redis \in {"connected", "disconnected"})
            /\ h.pc \in {"respond", "done"} =>
                (h.probe \in MeteoProbes /\ h.open_meteo \in {"available", "unavailable"})
            /\ h.pc = "done" => h.http = 200

C20_Witness ==
    /\ health[1].pc = "done" /\ health[1].http = 200
    /\ health[1].ping = "Exception" /\ health[1].probe = "Exception"
    /\ health[2].pc = "done" /\ health[2].ping = "RedisError"
    /\ health[2].probe = "RequestError"

C21_Boolean ==
    \A r \in Threads :
        health[r].probe # "" => IsAvailable(health[r].probe) \in {"True", "False"}

C21_Frame == breaker' = breaker /\ consec' = consec /\ lock' = lock

\* C21: the availability probe returns a boolean without raising, and no
\* health check, failed or successful, changes the state or the failure
\* counter of the weather or the geocoding breaker.
C21_ProbeBypasses == [](C21_Boolean) /\ [][C21_Frame]_vars

(***************************************************************************)
(* A CacheService object used directly: set, get, delete on its store.     *)
(***************************************************************************)
CsStoreKeys == { MakeKey(k) : k \in CacheKeys }

CsNoEntry == [present |-> FALSE, data |-> Dumps(PyNone), exp |-> 0]

\* variant: the ttl argument ignored
TtlToUse_Default(ttl, ttl_seconds) == ttl_seconds

\* ttl_to_use of CacheService.set
TtlToUse(ttl, ttl_seconds) == IF ttl # None THEN ttl ELSE ttl_seconds

\* the store after setex(cache_key, ttl_to_use, data) at time t
CacheServiceSet(store, k, v, ttl_to_use, t) ==
    [store EXCEPT ![MakeKey(k)] =
        [present |-> TRUE, data |-> Dumps(v), exp |-> t + ttl_to_use]]

\* variant: the store read under the key as handed in
CacheServiceGet_RawKey(store, k, outcome) ==
    LET sk == <<"weather:">> \o k
    IN  IF outcome = "ok" /\ sk \in DOMAIN store /\ store[sk].present
        THEN Loads(store[sk].data) ELSE PyNone

\* what CacheService.get returns: the decoded value, or None on a missing
\* key or a store error
CacheServiceGet(store, k, outcome) ==
    LET e == store[MakeKey(k)]
    IN  IF outcome = "ok" /\ e.present THEN Loads(e.data) ELSE PyNone

\* what the store's TTL command can meet: an answer, an answer for a key
\* that another client stored without expiry, a RedisError, or the
\* ValueError with which redis.from_url rejects the configured URL when the
\* client property builds the client
TtlOutcomes == {"ok", "noexpiry", "RedisError", "ValueError"}

\* redis TTL on entry e at time t: -2 for no key, -1 for no expiry
RedisTtl(e, noexpiry, t) ==
    IF ~e.present THEN -2 ELSE IF noexpiry THEN -1 ELSE e.exp - t

\* CacheService.get_ttl: what it raises ("" when it returns) and returns
CacheServiceGetTtl(outcome, reply) ==
    IF outcome = "ValueError" THEN [raised |-> "ValueError", value |-> PyNone]
    ELSE IF outcome = "RedisError" THEN [raised |-> "", value |-> PyNone]
    ELSE IF reply < 0 THEN [raised |-> "", value |-> PyNone]
    ELSE [raised |-> "", value |-> PyInt(reply)]

\* CacheService(ttl_seconds=d) on an empty store
InitCache ==
    /\ now = 0
    /\ breaker = [u \in Upstreams |-> NoBreaker]
    /\ lock = [u \in Upstreams |-> 0]
    /\ consec = [u \in Upstreams |-> 0]
    /\ req = [r \in Threads |-> IdleReq]
    /\ nreq = 0
    /\ cache = [k \in StoreKeys |-> NoEntry]
    /\ rt = RtIdle
    /\ g = [r \in Threads |-> NoContext]
    /\ uuids = 0
    /\ sent = <<>>
    /\ health = [r \in Threads |-> IdleHealth]
    /\ lazy = NoLazy
    /\ wx = NoWeather
    /\ sd = NoShutdown
    /\ \E d \in {CacheTtlSeconds, CacheTtlSeconds + 1} :
          cs = [ttl_seconds |-> d, store |-> [sk \in CsStoreKeys |-> CsNoEntry],
                client |-> FALSE, last |-> [op |-> "new"]]

\* set(k, RecordList[i], ttl): the store takes the write or raises
\* RedisError, as it does for an expiry that is not positive
CsSet(k, i, ttl, outcome) ==
    /\ nreq < MaxRequests
    /\ nreq' = nreq + 1
    /\ LET ttl_to_use == TtlToUse(ttl, cs.ttl_seconds)
           ok == outcome = "ok" /\ ttl_to_use > 0
       IN  cs' = [cs EXCEPT
                    !.store = IF ok
                              THEN CacheServiceSet(cs.store, k, RecordList[i], ttl_to_use, now)
                              ELSE cs.store,
                    !.client = TRUE,
                    !.last = [op |-> "set", k |-> k, i |-> i, ttl |-> ttl, result |-> ok]]
    /\ UNCHANGED <<now, breaker, lock, consec, req, cache, rt, g, uuids, sent, health, lazy, wx, sd>>

\* get(k)
CsGet(k, outcome) ==
    /\ nreq < MaxRequests
    /\ nreq' = nreq + 1
    /\ cs' = [cs EXCEPT !.client = TRUE,
                        !.last = [op |-> "get", k |-> k, outcome |-> outcome,
                                  value |-> CacheServiceGet(cs.store, k, outcome)]]
    /\ UNCHANGED <<now, breaker, lock, consec, req, cache, rt, g, uuids, sent, health, lazy, wx, sd>>

\* delete(k)
CsDelete(k, outcome) ==
    /\ nreq < MaxRequests
    /\ nreq' = nreq + 1
    /\ cs' = [cs EXCEPT
                !.store = IF outcome = "ok"
                          THEN [cs.store EXCEPT ![MakeKey(k)] = CsNoEntry] ELSE cs.store,
                !.client = TRUE,
                !.last = [op |-> "delete", k |-> k, result |-> outcome = "ok"]]
    /\ UNCHANGED <<now, breaker, lock, consec, req, cache, rt, g, uuids, sent, health, lazy, wx, sd>>

\* get_ttl(k); the client is built on first use
CsGetTtl(k, outcome) ==
    /\ nreq < MaxRequests
    /\ nreq' = nreq + 1
    /\ outcome = "ValueError" => ~cs.client
    /\ LET reply == RedisTtl(cs.store[MakeKey(k)], outcome = "noexpiry", now)
           res == CacheServiceGetTtl(outcome, reply)
       IN  cs' = [cs EXCEPT
                    !.client = cs.client \/ outcome # "ValueError",
                    !.last = [op |-> "ttl", k |-> k, outcome |-> outcome, reply |-> reply,
                              raised |-> res.raised, value |-> res.value]]
    /\ UNCHANGED <<now, breaker, lock, consec, req, cache, rt, g, uuids, sent, health, lazy, wx, sd>>

\* a second passes; the store drops the keys whose expiry is reached
CsTick ==
    /\ now < MaxTime
    /\ now' = now + 1
    /\ cs' = [cs EXCEPT
                !.store = [sk \in CsStoreKeys |->
                              IF cs.store[sk].present /\ cs.store[sk].exp <= now + 1
                              THEN CsNoEntry ELSE cs.store[sk]],
                !.last = [op |-> "tick"]]
    /\ UNCHANGED <<breaker, lock, consec, req, nreq, cache, rt, g, uuids, sent, health, lazy, wx, sd>>

NextCache ==
    \/ \E k \in CacheKeys, i \in DOMAIN RecordList, ttl \in TtlArgs, o \in {"ok", "error"} :
          CsSet(k, i, ttl, o)
    \/ \E k \in CacheKeys, o \in {"ok", "error"} : CsGet(k, o)
    \/ \E k \in CacheKeys, o \in {"ok", "error"} : CsDelete(k, o)
    \/ \E k \in CacheKeys, o \in TtlOutcomes : CsGetTtl(k, o)
    \/ CsTick

SpecCache == InitCache /\ [][NextCache]_vars

C22_Step ==
    (/\ cs.last.op = "set" /\ cs.last.result
     /\ cs'.last.op = "get" /\ cs'.last.k = cs.last.k /\ cs'.last.outcome = "ok")
        => PyEq(cs'.last.value, RecordList[cs.last.i])

\* C22: a set(k, v) that returned true, followed at once by get(k) on a
\* store that answers, returns a value equal to v.
C22_RoundTrip == [][C22_Step]_vars

C22_Witness ==
    /\ cs.last.op = "get" /\ cs.last.k = <<" ", "a", "B", "\t">>
    /\ cs.last.outcome = "ok" /\ nreq = 2 /\ now = 0
    /\ PyEq(cs.last.value, RecordList[2])

\* 'weather:' + lowercase(trim(name))
NormalKey(name) == <<"weather:">> \o Lower(Strip(name))

\* the city values of the accepted queries
AcceptedArgs == { a[1] : a \in {x \in CityArgs : ValidateCity(CityParam(x)) = "OK"} }

C23_Keys ==
    /\ \A k \in CacheKeys \cup AcceptedArgs : MakeKey(k) = NormalKey(k)
    /\ \A raw \in AcceptedArgs : MakeKey(Lower(Strip(raw))) = NormalKey(raw)
    /\ \A r \in Threads :
          req[r].pc \in {"cache_get", "cache_ttl", "cache_set"} => KeyOf(r) \in StoreKeys

C23_Step ==
    \A r \in Threads :
        LET q == req[r]
            q2 == req'[r]
            k == NormalKey(q.city)
        IN  /\ (q.pc = "cache_get" /\ q2 # q) => (q2.pc = "cache_ttl" <=> cache[k].present)
            /\ (q.pc = "cache_set" /\ q2 # q) =>
                  /\ cache'[k].present
                  /\ \A k2 \in StoreKeys \ {k} : cache'[k2] = cache[k2]

\* C23: every casing and surrounding-whitespace variant of a city name gives
\* the store key 'weather:' + lowercase(trim(name)), in _make_key and in the
\* key the pipeline hands to the cache; a record written for one variant is
\* hit by a request for another.
C23_KeyNormalization == [](C23_Keys) /\ [][C23_Step]_vars

C23_Witness ==
    /\ nreq = 3
    /\ req[1].pc = "cache_ttl" /\ req[1].city = <<"a", "B">>
    /\ req[2].pc = "cache_ttl" /\ req[2].city = <<"A", "b">>
    /\ req[1].name = req[2].name

\* C24 as stated: the wait before attempt n (n >= 2) is
\* min(max_wait, min_wait * 2^(n-2)).
C24_Original ==
    \A i \in 1..Len(rt.waits) :
        rt.waits[i] = Min(rt.max_wait, rt.min_wait * Pow2(i - 1))

\* C24: the wait before attempt n (n >= 2) is 2^(n-2) seconds, raised to
\* min_wait and capped at max_wait: max(min_wait, min(max_wait, 2^(n-2))),
\* the same on every run (no jitter).
C24_Backoff ==
    /\ \A i \in 1..Len(rt.waits) :
          LET n == i + 1
              e == Pow2(n - 2)
              capped == IF e > rt.max_wait THEN rt.max_wait ELSE e
          IN  rt.waits[i] = IF capped < rt.min_wait THEN rt.min_wait ELSE capped
    /\ Len(rt.waits) = IF rt.pc \in {"returned", "raised"} THEN rt.invoked - 1 ELSE rt.invoked

C24_Witness ==
    /\ rt.min_wait = 2 /\ rt.max_wait = 3
    /\ rt.waits = <<2, 2>>
    /\ rt.pc = "ready" /\ rt.attempt = 3

(***************************************************************************)
(* get_geocoding_breaker called by concurrent threads (get_weather_breaker *)
(* is the same code on the other global).  The function takes no lock, so  *)
(* its test, its assignment and its return are separate steps.             *)
(***************************************************************************)
\* `if _geocoding_breaker is None`
LazyTest(r) ==
    /\ lazy.th[r].pc = "out"
    /\ nreq < MaxRequests
    /\ nreq' = nreq + 1
    /\ lazy' = [lazy EXCEPT !.th[r] =
                  [pc |-> IF lazy.global = 0 THEN "create" ELSE "return",
                   epoch |-> lazy.epoch, got |-> 0]]
    /\ UNCHANGED <<now, breaker, lock, consec, req, cache, rt, g, uuids, sent, health, cs, wx, sd>>

\* `_geocoding_breaker = pybreaker.CircuitBreaker(...)`
LazyCreate(r) ==
    /\ lazy.th[r].pc = "create"
    /\ lazy' = [lazy EXCEPT !.made = lazy.made + 1, !.global = lazy.made + 1,
                            !.th[r].pc = "return"]
    /\ UNCHANGED <<now, breaker, lock, consec, req, nreq, cache, rt, g, uuids, sent, health, cs, wx, sd>>

\* `return _geocoding_breaker`; the caller then uses the instance
LazyReturn(r) ==
    /\ lazy.th[r].pc = "return"
    /\ lazy' = [lazy EXCEPT !.th[r].pc = "have", !.th[r].got = lazy.global]
    /\ UNCHANGED <<now, breaker, lock, consec, req, nreq, cache, rt, g, uuids, sent, health, cs, wx, sd>>

\* the caller's breaker call ends
LazyDone(r) ==
    /\ lazy.th[r].pc = "have"
    /\ lazy' = [lazy EXCEPT !.th[r] = [pc |-> "out", epoch |-> 0, got |-> 0]]
    /\ UNCHANGED <<now, breaker, lock, consec, req, nreq, cache, rt, g, uuids, sent, health, cs, wx, sd>>

\* reset_circuit_breakers
LazyReset ==
    /\ lazy.epoch < MaxResets
    /\ lazy' = [lazy EXCEPT !.global = 0, !.epoch = lazy.epoch + 1]
    /\ UNCHANGED <<now, breaker, lock, consec, req, nreq, cache, rt, g, uuids, sent, health, cs, wx, sd>>

NextLazy ==
    \/ \E r \in Threads : LazyTest(r)
    \/ \E r \in Threads : LazyCreate(r)
    \/ \E r \in Threads : LazyReturn(r)
    \/ \E r \in Threads : LazyDone(r)
    \/ LazyReset

SpecLazy == Init /\ [][NextLazy]_vars

\* C25: between two resets every caller of get_geocoding_breaker is handed
\* the same instance.
C25_OneInstance ==
    \A r1, r2 \in Threads :
        (/\ lazy.th[r1].pc = "have" /\ lazy.th[r2].pc = "have"
         /\ lazy.th[r1].epoch = lazy.th[r2].epoch /\ lazy.th[r1].epoch = lazy.epoch)
            => (lazy.th[r1].got = lazy.th[r2].got /\ lazy.th[r1].got # 0)

InvalidResponse == Exc("WeatherServiceError", "invalid response")

C26_Ended ==
    \A r \in Threads :
        LET q == req[r]
        IN  (q.pc = "done" /\ q.err = InvalidResponse) =>
              /\ q.invoked["weather"] = 1 /\ q.recorded["weather"] = 0
              /\ q.invoked["geocoding"] = 1 /\ q.sleeps = 0
              /\ q.status = 502 /\ q.code = "WEATHER_SERVICE_ERROR"

C26_Step ==
    \A r \in Threads :
        LET q == req[r]
            q2 == req'[r]
        IN  (q.pc = "inflight" /\ q.up = "weather" /\ q2.err = InvalidResponse) =>
              /\ q2.pc = "done" /\ q2.invoked = q.invoked /\ q2.sleeps = q.sleeps
              /\ breaker'["weather"].state = "closed"
              /\ breaker'["weather"].fail_counter = 0

\* C26: a successful weather answer without a `current` object ends
\* get_weather with WeatherServiceError('Invalid response') at once: the
\* weather upstream was invoked exactly once and nothing was retried.
C26_InvalidResponseOnce == [](C26_Ended) /\ [][C26_Step]_vars

C26_Witness ==
    \E r \in Threads :
        /\ req[r].pc = "done" /\ req[r].err = InvalidResponse
        /\ req[r].invoked["weather"] = 1 /\ req[r].status = 502
        /\ breaker["weather"].created /\ breaker["weather"].fail_counter = 0

(***************************************************************************)
(* GeocodingService.city_to_coords called on its own, as its unit tests    *)
(* call it: the request record has direct = TRUE, its arg is the name      *)
(* given, and it ends when the client returns or raises.                   *)
(***************************************************************************)
ClientNames == { <<>>, <<" ">>, <<" ", "\t">>, <<"A", "b">>, <<" ", "a", "B", "\t">> }

\* city_to_coords up to the call of _fetch_geocoding_data
CityToCoords(r, city_name) ==
    /\ req[r].pc \in {"idle", "done"}
    /\ nreq < MaxRequests
    /\ nreq' = nreq + 1
    /\ LET q == [IdleReq EXCEPT !.direct = TRUE, !.arg = <<city_name>>]
       IN  req' = [req EXCEPT ![r] =
                IF EmptyName(city_name)
                THEN Fail(q, Exc("CityNotFoundError", "empty"))
                ELSE [q EXCEPT !.pc = "call", !.up = "geocoding", !.attempt = 1,
                               !.city = Strip(city_name)]]
    /\ UNCHANGED <<now, breaker, lock, consec, cache, rt, g, uuids, sent, health, cs, lazy, wx, sd>>

NextClient ==
    \/ \E r \in Threads, city_name \in ClientNames : CityToCoords(r, city_name)
    \/ \E r \in Threads : BreakerEnter(r)
    \/ \E r \in Threads, e \in Failures : UpstreamFails(r, e)
    \/ \E r \in Threads, answer \in GeoAnswers : UpstreamAnswers(r, answer)
    \/ Tick

SpecClient == Init /\ [][NextClient]_vars

\* a call of city_to_coords with an empty or whitespace-only name
EmptyCall(q) == q.direct /\ q.arg # <<>> /\ Strip(q.arg[1]) = <<>>

C27_Ended ==
    \A r \in Threads :
        LET q == req[r]
        IN  /\ EmptyCall(q) =>
                 /\ q.pc = "done" /\ q.err = Exc("CityNotFoundError", "empty")
                 /\ q.invoked["geocoding"] = 0 /\ q.recorded["geocoding"] = 0
            /\ (q.direct /\ q.pc = "done" /\ q.err = Exc("CityNotFoundError", "not found")) =>
                 /\ ~EmptyCall(q)
                 /\ q.invoked["geocoding"] >= 1 /\ q.recorded["geocoding"] = 0

C27_Step ==
    \A r \in Threads :
        /\ (req'[r] # req[r] /\ EmptyCall(req'[r])) =>
              /\ breaker' = breaker /\ consec' = consec /\ lock' = lock
        /\ \A answer \in {"empty", "absent"} :
              UpstreamAnswers(r, answer) =>
                  /\ req'[r].pc = "done"
                  /\ req'[r].err = Exc("CityNotFoundError", "not found")

\* C27: city_to_coords with an empty or whitespace-only name raises
\* CityNotFoundError at once, with no upstream call and no change of the
\* geocoding breaker; an upstream answer whose results list is empty or
\* absent raises CityNotFoundError too.
C27_EmptyNameNoCall == [](C27_Ended) /\ [][C27_Step]_vars

C27_Witness ==
    /\ req[1].pc = "done" /\ req[1].arg = << <<" ", "\t">> >>
    /\ req[1].err = Exc("CityNotFoundError", "empty")
    /\ req[2].pc = "done" /\ req[2].direct /\ req[2].invoked["geocoding"] = 1
    /\ req[2].err = Exc("CityNotFoundError", "not found")
    /\ breaker["geocoding"].created /\ breaker["geocoding"].fail_counter = 1

GeocodingCodes == {"CITY_NOT_FOUND", "GEOCODING_ERROR"}

C28_Order ==
    \A r \in Threads :
        LET q == req[r]
        IN  /\ (q.up = "weather" \/ q.invoked["weather"] >= 1) =>
                 /\ q.invoked["geocoding"] = 1 /\ q.recorded["geocoding"] = 0
                 /\ q.name # <<>>
                 /\ ~q.cached
            /\ (q.pc = "done" /\ q.code \in GeocodingCodes) =>
                 /\ q.invoked["weather"] = 0 /\ q.recorded["weather"] = 0
                 /\ q.up = "none"

C28_Step ==
    \A r \in Threads :
        LET q == req[r]
            q2 == req'[r]
        IN  /\ (q2 # q /\ q.up # "weather") =>
                 /\ breaker'["weather"] = breaker["weather"]
                 /\ consec'["weather"] = consec["weather"]
                 /\ lock'["weather"] = lock["weather"]
                 /\ q.pc \notin {"idle", "done"} => q2.invoked["weather"] = q.invoked["weather"]
            /\ (q2 # q /\ q2.up = "weather" /\ q.up # "weather") =>
                 /\ q.pc = "inflight" /\ q.up = "geocoding"
                 /\ breaker'["geocoding"].fail_counter = 0

\* C28: a request invokes the weather upstream only after its geocoding
\* call has returned; a request that ends in CITY_NOT_FOUND or
\* GEOCODING_ERROR never calls the weather upstream and none of its steps
\* changes the weather breaker.
C28_GeocodeBeforeWeather == [](C28_Order) /\ [][C28_Step]_vars

C28_Witness ==
    /\ req[1].pc = "done" /\ req[1].code = "CITY_NOT_FOUND" /\ req[1].invoked["geocoding"] = 1
    /\ req[2].pc = "done" /\ req[2].code = "GEOCODING_ERROR"
    /\ \A r \in Threads : req[r].invoked["weather"] = 0
    /\ breaker["weather"].created /\ breaker["weather"].fail_counter = 1

C29_Fields ==
    \A r \in Threads :
        LET q == req[r]
        IN  (q.pc = "done" /\ q.status = 200) =>
              /\ ~q.cached => (q.ttl = None /\ q.cacheOps = 2)
              /\ q.cached => (q.cached_data = "record" /\ q.cacheOps = 2)
              /\ q.ttl # None => q.ttl > 0

C29_Step ==
    \A r \in Threads :
        LET q == req[r]
            q2 == req'[r]
            e == StoreGet(KeyOf(r))
        IN  /\ (q.pc = "cache_ttl" /\ q2 # q /\ q2.status = 200) =>
                 /\ q2.cached
                 /\ q2.ttl = None \/ (e.present /\ q2.ttl = e.exp - now)
            /\ (CacheTtl(r, TRUE) /\ req[r].cached_data = "record") =>
                 (q2.ttl # None <=> e.present)
            /\ (CacheTtl(r, FALSE) /\ req[r].cached_data = "record") => q2.ttl = None
            /\ (q.pc = "cache_set" /\ q2 # q) => (~q2.cached /\ q2.ttl = None)

\* C29: a fresh 200 response has cached=false and no cache_expires_in; a
\* cached 200 response has cached=true and carries cache_expires_in exactly
\* when get_ttl returned a value (a key that is gone or a store error gives
\* none).
C29_ExpiryField == [](C29_Fields) /\ [][C29_Step]_vars

C29_Witness ==
    /\ req[1].pc = "done" /\ req[1].status = 200 /\ req[1].cached /\ req[1].ttl = None
    /\ req[2].pc = "done" /\ req[2].status = 200 /\ req[2].cached /\ req[2].ttl = 1
    /\ nreq = 3

C30_Step ==
    (nreq' # nreq /\ cs'.last.op = "set") =>
        LET sk == MakeKey(cs'.last.k)
            ttl == cs'.last.ttl
        IN  /\ cs'.ttl_seconds = cs.ttl_seconds
            /\ \A other \in CsStoreKeys \ {sk} : cs'.store[other] = cs.store[other]
            /\ cs'.last.result =>
                  /\ cs'.store[sk].present
                  /\ cs'.store[sk].exp =
                        now + (IF ttl = None THEN cs.ttl_seconds ELSE ttl)
            /\ ~cs'.last.result => cs'.store[sk] = cs.store[sk]

C30_Default ==
    /\ cs.ttl_seconds \in {CacheTtlSeconds, CacheTtlSeconds + 1}
    /\ \A sk \in CsStoreKeys : cs.store[sk].present => cs.store[sk].exp > now

\* C30: set(k, v) stores the record with the service's default TTL; set(k,
\* v, ttl=t) stores it with t, for that write only: the default and the
\* other keys are as they were, and a later write without ttl uses the
\* default again.
C30_TtlOverride == [](C30_Default) /\ [][C30_Step]_vars

C30_Witness ==
    /\ now = 0
    /\ cs.store[MakeKey(<<"c">>)].present
    /\ cs.store[MakeKey(<<"c">>)].exp # cs.ttl_seconds
    /\ cs.last.op = "set" /\ cs.last.k = <<"A", "b">> /\ cs.last.ttl = None
    /\ cs.last.result
    /\ cs.store[MakeKey(<<"A", "b">>)].exp = cs.ttl_seconds

C31_Returned ==
    cs.last.op = "ttl" =>
        IF cs.last.outcome \in {"ok", "noexpiry"} /\ cs.last.reply >= 0
        THEN cs.last.value = PyInt(cs.last.reply)
        ELSE cs.last.value = PyNone

\* C31: get_ttl(k) returns the remaining seconds when k exists with an
\* expiry and None when k is absent, has no expiry or the store errors; it
\* never raises and never returns a negative number.
C31_GetTtl ==
    cs.last.op = "ttl" =>
        /\ cs.last.raised = ""
        /\ C31_Returned
        /\ cs.last.value.t = "int" => cs.last.value.v >= 0

(***************************************************************************)
(* WeatherService.get_weather after the fetch: the WeatherData assembled   *)
(* from the `current` and `current_units` objects of the answer.  A field  *)
(* of an object is [has |-> FALSE] when the key is missing.                *)
(***************************************************************************)
WMO_CODES ==
    <<
       <<0, "Clear sky">>,
       <<1, "Mainly clear">>,
       <<2, "Partly cloudy">>,
       <<3, "Overcast">>,
       <<45, "Fog">>,
       <<48, "Depositing rime fog">>,
       <<51, "Light drizzle">>,
       <<53, "Moderate drizzle">>,
       <<55, "Dense drizzle">>,
       <<56, "Light freezing drizzle">>,
       <<57, "Dense freezing drizzle">>,
       <<61, "Slight rain">>,
       <<63, "Moderate rain">>,
       <<65, "Heavy rain">>,
       <<66, "Light freezing rain">>,
       <<67, "Heavy freezing rain">>,
       <<71, "Slight snow fall">>,
       <<73, "Moderate snow fall">>,
       <<75, "Heavy snow fall">>,
       <<77, "Snow grains">>,
       <<80, "Slight rain showers">>,
       <<81, "Moderate rain showers">>,
       <<82, "Violent rain showers">>,
       <<85, "Slight snow showers">>,
       <<86, "Heavy snow showers">>,
       <<95, "Thunderstorm">>,
       <<96, "Thunderstorm with slight hail">>,
       <<99, "Thunderstorm with heavy hail">>
    >>

\* dict.get(key, default) on the code table
WmoGet(code, default) ==
    IF \E i \in DOMAIN WMO_CODES : WMO_CODES[i][1] = code
    THEN WMO_CODES[CHOOSE i \in DOMAIN WMO_CODES : WMO_CODES[i][1] = code][2]
    ELSE default

Missing == [has |-> FALSE, v |-> 0]
Val(n) == [has |-> TRUE, v |-> n]
Unit(s) == [has |-> TRUE, v |-> s]
NoUnit == [has |-> FALSE, v |-> ""]

\* current.get(key, default) and current.get(key)
DictGet(f, default) == IF f.has THEN f.v ELSE default
DictGetOrNone(f) == IF f.has THEN PyInt(f.v) ELSE PyNone

\* variant: is_day with a falsy default
IsDay_Falsy(f) == PyBool(f.has /\ f.v # 0)

\* `bool(is_day_value) if is_day_value is not None else None`
IsDay(f) == IF f.has THEN PyBool(f.v # 0) ELSE PyNone

\* the WeatherData get_weather returns for an answer with these objects
WeatherDataOf(current, units) ==
    LET weather_code == DictGet(current.weather_code, 0)
    IN  [temperature |-> DictGet(current.temperature_2m, 0),
         temperature_unit |-> DictGet(units.temperature_2m, "degC"),
         weather_code |-> weather_code,
         weather_description |-> WmoGet(weather_code, "Unknown"),
         wind_speed |-> DictGet(current.wind_speed_10m, 0),
         wind_speed_unit |-> DictGet(units.wind_speed_10m, "km/h"),
         humidity |-> DictGetOrNone(current.relative_humidity_2m),
         apparent_temperature |-> DictGetOrNone(current.apparent_temperature),
         precipitation |-> DictGetOrNone(current.precipitation),
         is_day |-> IsDay(current.is_day)]

\* the codes of the table and some outside it
CodeInputs == { WMO_CODES[i][1] : i \in DOMAIN WMO_CODES } \cup {4, 44, 100, 999}

CurrentAnswers ==
    [temperature_2m : {Missing, Val(0), Val(10)},
     weather_code : {Missing} \cup { Val(c) : c \in CodeInputs },
     wind_speed_10m : {Missing, Val(5)},
     relative_humidity_2m : {Missing, Val(80)},
     apparent_temperature : {Missing, Val(9)},
     precipitation : {Missing, Val(0)},
     is_day : {Missing, Val(0), Val(1)}]

UnitAnswers ==
    [temperature_2m : {NoUnit, Unit("F")}, wind_speed_10m : {NoUnit, Unit("mph")}]

\* an answer with a `current` object has been fetched
InitAssemble ==
    /\ now = 0
    /\ breaker = [u \in Upstreams |-> NoBreaker]
    /\ lock = [u \in Upstreams |-> 0]
    /\ consec = [u \in Upstreams |-> 0]
    /\ req = [r \in Threads |-> IdleReq]
    /\ nreq = 0
    /\ cache = [k \in StoreKeys |-> NoEntry]
    /\ rt = RtIdle
    /\ g = [r \in Threads |-> NoContext]
    /\ uuids = 0
    /\ sent = <<>>
    /\ health = [r \in Threads |-> IdleHealth]
    /\ lazy = NoLazy
    /\ cs = NoService
    /\ sd = NoShutdown
    /\ \E c \in CurrentAnswers, u \in UnitAnswers :
          wx = [pc |-> "fetched", current |-> c, units |-> u]

\* the assembly of the reading
Assemble ==
    /\ wx.pc = "fetched"
    /\ wx' = [pc |-> "returned", current |-> wx.current, units |-> wx.units,
              data |-> WeatherDataOf(wx.current, wx.units)]
    /\ UNCHANGED <<now, breaker, lock, consec, req, nreq, cache, rt, g, uuids, sent, health, cs, lazy, sd>>

NextAssemble == Assemble

SpecAssemble == InitAssemble /\ [][NextAssemble]_vars

\* the parts of the statement that do not concern the numeric defaults
C32_Description ==
    wx.pc = "returned" =>
        LET c == wx.current
            d == wx.data
        IN  /\ (c.weather_code.has /\ c.weather_code.v = 0) => d.weather_description = "Clear sky"
            /\ (c.weather_code.has /\ c.weather_code.v = 99)
                  => d.weather_description = "Thunderstorm with heavy hail"
            /\ \A i \in DOMAIN WMO_CODES :
                  (c.weather_code.has /\ c.weather_code.v = WMO_CODES[i][1])
                      => d.weather_description = WMO_CODES[i][2]
            /\ (c.weather_code.has /\
                \A i \in DOMAIN WMO_CODES : c.weather_code.v # WMO_CODES[i][1])
                  => d.weather_description = "Unknown"
            /\ ~c.is_day.has => d.is_day = PyNone
            /\ (c.is_day.has /\ c.is_day.v = 0) => d.is_day = PyBool(FALSE)
            /\ (c.is_day.has /\ c.is_day.v = 1) => d.is_day = PyBool(TRUE)

\* C32 as stated: every missing numeric field defaults to 0.
C32_Original ==
    /\ C32_Description
    /\ wx.pc = "returned" =>
          LET c == wx.current
              d == wx.data
          IN  /\ ~c.temperature_2m.has => d.temperature = 0
              /\ ~c.weather_code.has => d.weather_code = 0
              /\ ~c.wind_speed_10m.has => d.wind_speed = 0
              /\ ~c.relative_humidity_2m.has => d.humidity = PyInt(0)
              /\ ~c.apparent_temperature.has => d.apparent_temperature = PyInt(0)
              /\ ~c.precipitation.has => d.precipitation = PyInt(0)

\* C32: the description is the table entry of the weather code and
\* 'Unknown' outside the table; a missing temperature, weather code or wind
\* speed defaults to 0, while a missing humidity, apparent temperature or
\* precipitation stays None; a missing is_day stays None, 0 gives false and
\* 1 gives true.
C32_Assembly ==
    /\ C32_Description
    /\ wx.pc = "returned" =>
          LET c == wx.current
              d == wx.data
          IN  /\ d.temperature = (IF c.temperature_2m.has THEN c.temperature_2m.v ELSE 0)
              /\ d.weather_code = (IF c.weather_code.has THEN c.weather_code.v ELSE 0)
              /\ d.wind_speed = (IF c.wind_speed_10m.has THEN c.wind_speed_10m.v ELSE 0)
              /\ ~c.weather_code.has => d.weather_description = "Clear sky"
              /\ ~c.relative_humidity_2m.has => d.humidity = PyNone
              /\ ~c.apparent_temperature.has => d.apparent_temperature = PyNone
              /\ ~c.precipitation.has => d.precipitation = PyNone
              /\ c.precipitation.has => d.precipitation = PyInt(c.precipitation.v)

C32_Witness ==
    /\ wx.pc = "returned"
    /\ ~wx.current.temperature_2m.has /\ wx.data.temperature = 0
    /\ ~wx.current.relative_humidity_2m.has /\ wx.data.humidity = PyNone
    /\ wx.current.weather_code = Val(999) /\ wx.data.weather_description = "Unknown"
    /\ ~wx.current.is_day.has /\ wx.data.is_day = PyNone

(***************************************************************************)
(* The correlation identifier: the request logging middleware around       *)
(* GET /weather.  Identifiers sent by callers are numbers above every      *)
(* generated one.                                                          *)
(***************************************************************************)
\* get_correlation_id on context ctx, where uuid4 would give `fresh`
GetCorrelationId(ctx, fresh) ==
    IF ctx.correlation_id # None THEN ctx
    ELSE [ctx EXCEPT !.correlation_id =
            IF ctx.x_request_id # None THEN ctx.x_request_id
            ELSE IF ctx.x_correlation_id # None THEN ctx.x_correlation_id
            ELSE fresh]

\* a request arrives with these headers; log_request_start sets the
\* correlation identifier and logs request_started with it
LogRequestStart(r, xr, xc) ==
    /\ ~g[r].active
    /\ nreq < MaxRequests
    /\ nreq' = nreq + 1
    /\ LET c0 == [NoContext EXCEPT !.active = TRUE, !.x_request_id = xr,
                                   !.x_correlation_id = xc]
           c == GetCorrelationId(c0, uuids + 1)
       IN  /\ g' = [g EXCEPT ![r] = [c EXCEPT !.logged = {c.correlation_id}]]
           /\ uuids' = IF c.correlation_id = uuids + 1 THEN uuids + 1 ELSE uuids
    /\ UNCHANGED <<now, breaker, lock, consec, req, cache, rt, sent, health, cs, lazy, wx, sd>>

\* log_request_complete: request_completed is logged and the header set
LogRequestComplete(r) ==
    /\ g[r].active
    /\ g[r].status # 0
    /\ g[r].header_out = None
    /\ LET c == GetCorrelationId(g[r], uuids + 1)
       IN  /\ g' = [g EXCEPT ![r] = [c EXCEPT !.logged = c.logged \cup {c.correlation_id},
                                              !.header_out = c.correlation_id]]
           /\ uuids' = IF c.correlation_id # g[r].correlation_id THEN uuids + 1 ELSE uuids
    /\ UNCHANGED <<now, breaker, lock, consec, req, nreq, cache, rt, sent, health, cs, lazy, wx, sd>>

\* the response is sent: flask pops the context
PopContext(r) ==
    /\ g[r].active
    /\ g[r].header_out # None
    /\ g' = [g EXCEPT ![r] = NoContext]
    /\ UNCHANGED <<now, breaker, lock, consec, req, nreq, cache, rt, uuids, sent, health, cs, lazy, wx, sd>>

NextCorrelation ==
    \/ \E r \in Threads, xr \in {None, 101}, xc \in {None, 102} :
          LogRequestStart(r, xr, xc)
    \/ \E r \in Threads : EnterHandler(r)
    \/ \E r \in Threads, t \in {x \in Terminals : x.code \in {"fresh", "CITY_NOT_FOUND"}} :
          Respond(r, t)
    \/ \E r \in Threads : LogRequestComplete(r)
    \/ \E r \in Threads : PopContext(r)

SpecCorrelation == Init /\ [][NextCorrelation]_vars

\* C33: the request_id of the /weather response body is the identifier the
\* request's logs and its X-Request-ID response header carry, the one
\* get_correlation_id gives for the request.
C33_Threaded ==
    \A r \in Threads :
        LET c == g[r]
        IN  /\ c.status # 0 => c.body_id = c.correlation_id
            /\ c.header_out # None => (c.header_out = c.body_id /\ c.logged = {c.body_id})

C34_Step ==
    /\ \A r \in Threads :
        LET q == req[r]
            q2 == req'[r]
        IN  /\ (q2 # q /\ q.pc # "cache_set") => cache' = cache
            /\ (q2 # q /\ q.pc = "cache_set") =>
                  /\ q2.pc = "done" /\ q2.status = 200 /\ ~q2.cached
                  /\ \A k \in StoreKeys \ {KeyOf(r)} : cache'[k] = cache[k]
            /\ (q2 # q /\ q2.pc = "done" /\ (q2.status # 200 \/ q2.cached)) => cache' = cache
    /\ now' = now => \A k \in StoreKeys : cache[k].present => cache'[k].present

C34_Ended ==
    \A r \in Threads :
        LET q == req[r]
        IN  /\ (q.pc = "done" /\ q.status \in {404, 502, 500}) => q.cacheOps \in {1, 2}
            /\ (q.pc = "done" /\ q.status = 400) => q.cacheOps = 0
            /\ q.pc = "cache_set" => (q.err = NoExc /\ ~q.cached /\ q.invoked["weather"] = 1)

\* C34: only a request on the full success path writes the cache: no step
\* of a request that ends in 400, 404, 502 or 500, and no step of a
\* cache-hit request, creates, replaces or removes a cached record.
C34_WriteOnlyOnSuccess == [](C34_Ended) /\ [][C34_Step]_vars

C34_Witness ==
    /\ req[1].pc = "done" /\ req[1].code = "CITY_NOT_FOUND" /\ req[1].cacheOps = 1
    /\ req[2].pc = "done" /\ req[2].status = 200 /\ req[2].cached
    /\ nreq = 3
    /\ Cardinality({k \in StoreKeys : cache[k].present}) = 1

OtherUpstream(u) == IF u = "geocoding" THEN "weather" ELSE "geocoding"

\* the breaker is absent or closed: its next call is let through
NotOpen(b) == ~b.created \/ b.state = "closed"

C35_Step ==
    \A r \in Threads :
        LET q == req[r]
            q2 == req'[r]
            u == q.up
        IN  (q2 # q /\ u \in Upstreams) =>
              /\ breaker'[OtherUpstream(u)] = breaker[OtherUpstream(u)]
              /\ consec'[OtherUpstream(u)] = consec[OtherUpstream(u)]
              /\ lock'[OtherUpstream(u)] = lock[OtherUpstream(u)]
              /\ (q.pc = "call" /\ NotOpen(breaker[u])) =>
                    (q2.pc = "inflight" /\ q2.invoked[u] = q.invoked[u] + 1)

\* C35: a call through one client changes nothing of the other upstream's
\* breaker (state, failure counter, opened_at), and a call whose own
\* breaker is not open is let through whatever the other breaker's state.
C35_Independent == [][C35_Step]_vars

C35_Witness ==
    /\ breaker["geocoding"].state = "open" /\ breaker["geocoding"].fail_counter = FailMax
    /\ now < breaker["geocoding"].opened_at + ResetTimeout
    /\ NotOpen(breaker["weather"]) /\ breaker["weather"].fail_counter = 0
    /\ \E r \in Threads : req[r].pc = "inflight" /\ req[r].up = "weather"

C36_Breaker ==
    \A u \in Upstreams :
        LET b == breaker[u]
        IN  /\ b.state \in {"closed", "open", "half_open"}
            /\ b.fail_counter >= 0
            /\ b.state = "closed" => b.fail_counter < FailMax
            /\ b.state = "open" => (b.opened_at # None /\ b.opened_at <= now)
            /\ ~b.created => b = NoBreaker

C36_Step ==
    /\ (breaker' # breaker /\ req' = req) =>
          (breaker' = [u \in Upstreams |-> NoBreaker] /\ consec' = [u \in Upstreams |-> 0])
    /\ \A r \in Threads :
          LET u == req[r].up
          IN  (req'[r] # req[r] /\ req[r].pc = "call" /\ ~breaker[u].created) =>
                /\ breaker'[u] = NewBreaker
                /\ req'[r].pc = "inflight"

\* C36: in every reachable state each breaker is closed, open or half_open,
\* its failure counter is not negative, a closed breaker's counter is below
\* fail_max and an open breaker has its opened_at set; after
\* reset_circuit_breakers the next use finds a closed breaker with zero
\* failures.
C36_BreakerInvariant == [](C36_Breaker) /\ [][C36_Step]_vars

C36_Witness ==
    /\ now = 0
    /\ req[2].pc = "done" /\ req[2].code = "GEOCODING_ERROR" /\ req[2].recorded["geocoding"] = 1
    /\ req[2].err.msg = "temporarily unavailable"
    /\ req[1].pc = "inflight" /\ req[1].up = "geocoding"
    /\ breaker["geocoding"] = NewBreaker

\* the answers the clients reject after the breaker call has returned
SemanticAnswers == {"empty", "absent", "nocurrent"}

C37_Step ==
    \A r \in Threads, answer \in SemanticAnswers :
        UpstreamAnswers(r, answer) =>
            LET u == req[r].up
            IN  /\ breaker'[u].fail_counter = 0
                /\ breaker'[u].state = "closed"
                /\ breaker'[u].opened_at = breaker[u].opened_at
                /\ consec'[u] = 0
                /\ req'[r].recorded = req[r].recorded
                /\ req'[r].pc = "done"
                /\ req'[r].err = (IF u = "geocoding"
                                  THEN Exc("CityNotFoundError", "not found")
                                  ELSE InvalidResponse)

C37_Ended ==
    \A r \in Threads :
        LET q == req[r]
        IN  (q.pc = "done" /\ q.err \in {Exc("CityNotFoundError", "not found"), InvalidResponse})
                => \A u \in Upstreams : q.recorded[u] = 0

\* C37: a geocoding answer with an empty or absent results list and a
\* weather answer without `current` are successes for the breaker: the
\* failure counter does not grow and is zero afterwards, and a half-open
\* breaker they probe is closed.
C37_SemanticIsSuccess == [](C37_Ended) /\ [][C37_Step]_vars

C37_Witness ==
    /\ now >= ResetTimeout
    /\ req[1].pc = "done" /\ req[1].err = Exc("CityNotFoundError", "not found")
    /\ req[2].pc = "done" /\ req[2].err = Unavailable("geocoding")
    /\ req[2].recorded["geocoding"] = 1
    /\ breaker["geocoding"].state = "closed" /\ breaker["geocoding"].fail_counter = 0
    /\ breaker["geocoding"].opened_at # None

\* C38: a client call reports the breaker-open ('temporarily unavailable')
\* error only if the upstream was not invoked during that call; a call whose
\* upstream was invoked and failed reports the upstream failure.
C38_FailFastOnly ==
    \A r \in Threads, u \in Upstreams :
        LET q == req[r]
        IN  (q.pc = "done" /\ q.err = Unavailable(u)) =>
                (q.invoked[u] = 0 /\ q.recorded[u] = 0)

(***************************************************************************)
(* GET /weather where every cache and upstream call a request has begun    *)
(* returns or fails, and a thread waiting for a breaker's lock gets it     *)
(* once it stays free: the steps of each request are weakly fair.  New     *)
(* requests, the clock and the reset need not happen.                      *)
(***************************************************************************)
RequestStep(r) ==
    \/ \E outcome \in StoreReads : CacheGet(r, outcome)
    \/ \E ok \in BOOLEAN : CacheTtl(r, ok)
    \/ BreakerEnter(r)
    \/ \E e \in Failures : UpstreamFails(r, e)
    \/ \E answer \in GeoAnswers \cup WeatherAnswers : UpstreamAnswers(r, answer)
    \/ \E outcome \in StoreWrites : CacheSet(r, outcome)

\* the query strings of the fair runs: none, a city, a city over the limit
LiveArgs == { <<>>, << <<"A", "b">> >>, << Rep("a", MaxCityLen + 1) >> }

NextLive ==
    \/ \E r \in Threads, arg \in LiveArgs : nreq < MaxLiveRequests /\ Start(r, arg)
    \/ \E r \in Threads : RequestStep(r)
    \/ Tick
    \/ ResetCircuitBreakers

SpecLive == Init /\ [][NextLive]_vars /\ \A r \in Threads : WF_vars(RequestStep(r))

\* the terminal state a finished request is in
TerminalOf(q) ==
    [status |-> q.status,
     code |-> IF q.status = 200 THEN (IF q.cached THEN "cached" ELSE "fresh") ELSE q.code]

C39_Bounded ==
    \A r \in Threads :
        LET q == req[r]
        IN  /\ q.pc = "done" => TerminalOf(q) \in Terminals
            /\ q.pc # "done" => q.status = 0
            /\ q.attempt <= RetryMaxAttempts
            /\ \A u \in Upstreams : q.invoked[u] <= RetryMaxAttempts
            /\ q.cacheOps <= 2

C39_Step ==
    \A r \in Threads :
        (req[r].pc = "done" /\ req'[r] # req[r]) =>
            (nreq' = nreq + 1 /\ req'[r].invoked = [u \in Upstreams |-> 0])

C39_Terminates == \A r \in Threads : (req[r].pc \notin {"idle", "done"}) ~> (req[r].pc = "done")

\* C39: every /weather request whose cache and upstream calls return or
\* fail ends in exactly one of the eight terminal states and keeps it; the
\* attempts on an upstream are bounded, so no request runs forever even
\* when an upstream fails every time.
C39_Termination == [](C39_Bounded) /\ [][C39_Step]_vars /\ C39_Terminates

C39_Witness ==
    /\ nreq >= 2
    /\ \A r \in Threads : req[r].pc = "done"
    /\ req[1].code = "GEOCODING_ERROR" /\ req[1].recorded["geocoding"] = 1
    /\ req[2].code = "WEATHER_SERVICE_ERROR" /\ req[2].recorded["weather"] = 1
    /\ breaker["geocoding"].fail_counter >= 1

(***************************************************************************)
(* Graceful shutdown.  The handler of SIGTERM and SIGINT runs on the main  *)
(* thread between two bytecodes, also between two bytecodes of a handler   *)
(* that is already running: a signal delivered meanwhile pushes a new      *)
(* frame of _handle_signal.                                                *)
(***************************************************************************)
\* what a callback does when called: return, raise an Exception, or raise
\* SystemExit (it calls sys.exit)
CallbackKinds == {"returns", "raises", "exits"}

\* variant: no except clause around the callback
CallbackEnds_Uncaught(kind) == IF kind = "returns" THEN "next" ELSE "unwind"

\* `try: callback() except Exception`: the loop goes on to the next callback
\* unless what was raised is no Exception
CallbackEnds(kind) == IF kind = "exits" THEN "unwind" ELSE "next"

\* is_shutting_down()
IsShuttingDown == sd.event

\* register_shutdown_callback, at application start
RegisterShutdownCallback(kind) ==
    /\ sd.signals = 0
    /\ Len(sd.callbacks) < MaxCallbacks
    /\ sd' = [sd EXCEPT !.callbacks = Append(sd.callbacks, kind)]
    /\ UNCHANGED <<now, breaker, lock, consec, req, nreq, cache, rt, g, uuids, sent, health, cs, lazy, wx>>

\* SIGTERM or SIGINT is delivered: _handle_signal starts
Signal ==
    /\ ~sd.exited
    /\ sd.signals < MaxSignals
    /\ sd' = [sd EXCEPT !.signals = sd.signals + 1,
                        !.stack = Append(sd.stack, [pc |-> "start", i |-> 1])]
    /\ UNCHANGED <<now, breaker, lock, consec, req, nreq, cache, rt, g, uuids, sent, health, cs, lazy, wx>>

\* _shutdown_event.set()
HandlerSetsEvent ==
    /\ sd.stack # <<>>
    /\ sd.stack[Len(sd.stack)].pc = "start"
    /\ sd' = [sd EXCEPT !.event = TRUE, !.stack[Len(sd.stack)].pc = "loop"]
    /\ UNCHANGED <<now, breaker, lock, consec, req, nreq, cache, rt, g, uuids, sent, health, cs, lazy, wx>>

\* one turn of the loop over _shutdown_callbacks in the innermost frame; an
\* exception that is no Exception unwinds every frame
HandlerCallsBack ==
    /\ sd.stack # <<>>
    /\ LET top == sd.stack[Len(sd.stack)]
       IN  /\ top.pc = "loop"
           /\ top.i <= Len(sd.callbacks)
           /\ IF CallbackEnds(sd.callbacks[top.i]) = "next"
              THEN sd' = [sd EXCEPT !.calls = Append(sd.calls, top.i),
                                    !.stack[Len(sd.stack)].i = top.i + 1]
              ELSE sd' = [sd EXCEPT !.calls = Append(sd.calls, top.i),
                                    !.stack = <<>>, !.exited = TRUE]
    /\ UNCHANGED <<now, breaker, lock, consec, req, nreq, cache, rt, g, uuids, sent, health, cs, lazy, wx>>

\* the loop is over: sys.exit(0) raises SystemExit through every frame
HandlerExits ==
    /\ sd.stack # <<>>
    /\ LET top == sd.stack[Len(sd.stack)]
       IN  /\ top.pc = "loop"
           /\ top.i > Len(sd.callbacks)
    /\ sd' = [sd EXCEPT !.stack = <<>>, !.exited = TRUE]
    /\ UNCHANGED <<now, breaker, lock, consec, req, nreq, cache, rt, g, uuids, sent, health, cs, lazy, wx>>

NextShutdown ==
    \/ \E kind \in CallbackKinds : RegisterShutdownCallback(kind)
    \/ Signal
    \/ HandlerSetsEvent
    \/ HandlerCallsBack
    \/ HandlerExits

SpecShutdown == Init /\ [][NextShutdown]_vars

\* the callbacks 1..n, in registration order
RegistrationOrder == [i \in 1..Len(sd.callbacks) |-> i]

C40_Flag ==
    /\ IsShuttingDown => sd.signals >= 1
    /\ sd.calls # <<>> => IsShuttingDown
    /\ sd.exited => IsShuttingDown

C40_Step ==
    /\ IsShuttingDown => sd'.event
    /\ sd'.calls # sd.calls => IsShuttingDown

====
